---- MODULE Spec2Model ----
(***************************************************************************)
(* SetDB: Redis-style aggregates mapped onto one ordered byte-keyed store. *)
(* Record keys and values are byte strings (sequences over 0..255); the    *)
(* store is a finite function from record key to value, iterated in        *)
(* byte-lexicographic order.  Engines read the store and stage Put/Delete  *)
(* operations into a write batch; dispatch commits the batch.              *)
(***************************************************************************)
EXTENDS Integers, Sequences, FiniteSets, TLC

VARIABLES
    store,      \* the LevelDB contents: record key -> value
    locks,      \* the lock ring: the set of mutexes that are locked
    faults,     \* the record keys whose read fails for the next command
    crashed,    \* the process died (Go panic, or abort inside the store)
    steps,      \* number of commands dispatched so far
    last,       \* the command a single connection ran last, with its outcome
    deque,      \* the abstract double-ended queue of every list key
    pc,         \* per concurrent client: position inside runCommand
    ccmd,       \* per concurrent client: the command it runs
    cpos,       \* per concurrent client: index of the next key to lock
    cres,       \* per concurrent client: what the engine returned
    store0,     \* the store when the concurrent clients started their commands
    fin,        \* the arguments of a function applied on its own
    fout,       \* what that function returned
    conn        \* one client connection: its reader, channels and goroutines

seqvars == <<last, deque>>
concvars == <<pc, ccmd, cpos, cres, store0>>
funvars == <<fin, fout, conn>>
vars ==
    <<store, locks, faults, crashed, steps, last, deque, pc, ccmd, cpos, cres, store0,
      fin, fout, conn>>

-----------------------------------------------------------------------------
(* Bounds *)

\* commands dispatched in one behaviour
MaxSteps == 2

-----------------------------------------------------------------------------
(* Type tags, commands.go:17-30 *)

MetaKey == 0
StringKey == 1
HashKey == 2
ListKey == 3
SetKey == 4
ZSetKey == 5
ZScoreKey == 6
StringLengthValue == 7
HashLengthValue == 8
ListLengthValue == 9
SetCardValue == 10
ZCardValue == 11

keyPrefixSize == 5
listLooseSeq == 1

-----------------------------------------------------------------------------
(* Byte strings *)

Min(a, b) == IF a < b THEN a ELSE b

Take(s, n) == SubSeq(s, 1, Min(n, Len(s)))
Drop(s, n) == SubSeq(s, n + 1, Len(s))

\* bytes.Equal
BytesEqual(a, b) == a = b

\* bytes.Compare(a, b) = -1
RECURSIVE LexLess(_, _)
LexLess(a, b) ==
    IF b = <<>> THEN FALSE
    ELSE IF a = <<>> THEN TRUE
    ELSE IF a[1] # b[1] THEN a[1] < b[1]
    ELSE LexLess(Tail(a), Tail(b))

LexLeq(a, b) == a = b \/ LexLess(a, b)

HasPrefix(k, p) == Len(k) >= Len(p) /\ SubSeq(k, 1, Len(p)) = p

\* binary.BigEndian.PutUint32 of a uint32.  A uint32 is held as the integer
\* congruent to it modulo 2^32 in -2^31 .. 2^31-1, so that a count that
\* wrapped below zero (0xFFFFFFFF) is the integer -1.
PutUint32(n) ==
    IF n >= 0
    THEN <<(n \div 16777216) % 256, (n \div 65536) % 256, (n \div 256) % 256, n % 256>>
    ELSE LET c == (-n) - 1 IN
         <<255 - ((c \div 16777216) % 256), 255 - ((c \div 65536) % 256),
           255 - ((c \div 256) % 256), 255 - (c % 256)>>

\* binary.BigEndian.Uint32
Uint32(b) ==
    IF b[1] < 128
    THEN b[1] * 16777216 + b[2] * 65536 + b[3] * 256 + b[4]
    ELSE -(((255 - b[1]) * 16777216 + (255 - b[2]) * 65536 + (255 - b[3]) * 256 + (255 - b[4])) + 1)

\* binary.BigEndian.PutUint64(uint64(v)) for an int64 v of small magnitude
PutInt64(v) ==
    IF v >= 0
    THEN <<0, 0, 0, 0>> \o PutUint32(v)
    ELSE <<255, 255, 255, 255>> \o PutUint32(v)

\* int64(binary.BigEndian.Uint64(b)) for the same range
Int64(b) == Uint32(SubSeq(b, 5, 8))

\* uint64(seq - math.MinInt64): the subtraction wraps, which flips the top bit
PutSeq(seq) == LET b == PutInt64(seq) IN <<(b[1] + 128) % 256>> \o Tail(b)

\* int64(Uint64(b)) + math.MinInt64
SeqOf(b) == Int64(<<(b[1] + 128) % 256>> \o Tail(b))


-----------------------------------------------------------------------------
(* Key codec, core/key_buffer.go *)

\* NewKeyBuffer(t, key, extra): tag, 4-byte big-endian key length, key
NewKeyBuffer(t, key) ==
    [buf |-> <<t>> \o PutUint32(Len(key)) \o key, keyLen |-> Len(key), reverseKey |-> FALSE]

\* KeyBuffer.SetSuffix
SetSuffix(b, s) == [b EXCEPT !.buf = Take(b.buf, keyPrefixSize + b.keyLen) \o s]

NewKeyBufferWithSuffix(t, key, suffix) == SetSuffix(NewKeyBuffer(t, key), suffix)

\* KeyBuffer.SuffixForRead(n) followed by writing the n bytes w into the
\* returned slice: the first n bytes after the key are overwritten, whatever
\* follows them is kept
WriteSuffixForRead(b, w) ==
    LET start == keyPrefixSize + b.keyLen
        n == Len(w)
    IN  IF Len(b.buf) < start + n
        THEN [b EXCEPT !.buf = Take(b.buf, start) \o w]
        ELSE [b EXCEPT !.buf = Take(b.buf, start) \o w \o Drop(b.buf, start + n)]

\* KeyBuffer.IsPrefixOf
IsPrefixOf(b, k) ==
    LET keyLen == IF b.reverseKey THEN keyPrefixSize + b.keyLen - 1
                  ELSE keyPrefixSize + b.keyLen
    IN  Len(k) > keyLen /\ Take(b.buf, keyLen) = Take(k, keyLen)

\* index of the last byte of buf that is not 0xff, 0 if there is none
RECURSIVE LastNonFF(_, _)
LastNonFF(buf, i) ==
    IF i = 0 THEN 0
    ELSE IF buf[i] = 255 THEN LastNonFF(buf, i - 1)
    ELSE i

\* KeyBuffer.ReverseIterKey
ReverseIterKey(b) ==
    LET i == LastNonFF(b.buf, Len(b.buf))
    IN  IF i = 0 THEN [b EXCEPT !.reverseKey = TRUE]
        ELSE [b EXCEPT !.reverseKey = TRUE,
                       !.buf = [j \in 1..i |-> IF j = i THEN b.buf[j] + 1 ELSE b.buf[j]]]

\* metaKey / bufMetaKey, commands.go:288-298
metaKey(k) == <<MetaKey>> \o k

\* stringKey, cluster/cluster.go:134-140
stringKey(k) == <<StringKey>> \o PutUint32(Len(k)) \o k

\* parseMemberFromSetKey, set.go:356-359
parseMemberFromSetKey(key) == Drop(key, 5 + Uint32(SubSeq(key, 2, 5)))

-----------------------------------------------------------------------------
(* The ordered store (LevelDB through levigo) *)

NoKey == <<>>     \* an iterator that is not Valid() has this position

\* DB.Get(opts, k): err (the read failed), found (res != nil) and the value.
\* bad is the set of record keys whose read fails with an IOError.
Get(s, bad, k) ==
    IF k \in bad THEN [err |-> TRUE, found |-> FALSE, v |-> <<>>]
    ELSE IF k \in DOMAIN s THEN [err |-> FALSE, found |-> TRUE, v |-> s[k]]
    ELSE [err |-> FALSE, found |-> FALSE, v |-> <<>>]

\* Iterator.Seek(k): the smallest key >= k
Seek(s, k) ==
    LET ge == {x \in DOMAIN s : LexLeq(k, x)}
    IN  IF ge = {} THEN NoKey
        ELSE CHOOSE x \in ge : \A y \in ge : LexLeq(x, y)

\* Iterator.Next() from a valid position
IterNext(s, cur) ==
    LET gt == {x \in DOMAIN s : LexLess(cur, x)}
    IN  IF gt = {} THEN NoKey
        ELSE CHOOSE x \in gt : \A y \in gt : LexLeq(x, y)

\* Iterator.Prev() from a valid position
IterPrev(s, cur) ==
    LET lt == {x \in DOMAIN s : LexLess(x, cur)}
    IN  IF lt = {} THEN NoKey
        ELSE CHOOSE x \in lt : \A y \in lt : LexLeq(y, x)

\* the keys of the store at or after position cur, ascending
RECURSIVE ScanFrom(_, _)
ScanFrom(s, cur) ==
    IF cur = NoKey THEN <<>> ELSE <<cur>> \o ScanFrom(s, IterNext(s, cur))

\* WriteBatch: a sequence of <<"P", key, value>> and <<"D", key, <<>>>>
WbPut(k, v) == <<"P", k, v>>
WbDelete(k) == <<"D", k, <<>>>>

ApplyOp(s, op) ==
    IF op[1] = "P"
    THEN [x \in (DOMAIN s) \cup {op[2]} |-> IF x = op[2] THEN op[3] ELSE s[x]]
    ELSE [x \in (DOMAIN s) \ {op[2]} |-> s[x]]

\* DB.Write: the operations take effect in order, atomically
RECURSIVE Write(_, _)
Write(s, wb) == IF wb = <<>> THEN s ELSE Write(ApplyOp(s, Head(wb)), Tail(wb))

EmptyStore == [x \in {} |-> <<>>]


\* the keys from position cur on that IsPrefixOf accepts, up to the first one
\* it rejects: for it.Seek(p); it.Valid(); it.Next() { if !IsPrefixOf { break } }
RECURSIVE ScanWhile(_, _, _)
ScanWhile(s, kb, cur) ==
    IF cur = NoKey \/ ~IsPrefixOf(kb, cur) THEN <<>>
    ELSE <<cur>> \o ScanWhile(s, kb, IterNext(s, cur))

PrefixScan(s, kb) == ScanWhile(s, kb, Seek(s, kb.buf))

-----------------------------------------------------------------------------
(* Replies and engine results, commands.go:44-55 *)

RInt(n) == [t |-> "int", n |-> n, b |-> <<>>, e |-> "", m |-> <<>>]
RErr(e) == [t |-> "err", n |-> 0, b |-> <<>>, e |-> e, m |-> <<>>]
RBulk(b) == [t |-> "bulk", n |-> 0, b |-> b, e |-> "", m |-> <<>>]
RStatus(x) == [t |-> "status", n |-> 0, b |-> <<>>, e |-> x, m |-> <<>>]
RNil == [t |-> "nil", n |-> 0, b |-> <<>>, e |-> "", m |-> <<>>]
RNone == [t |-> "none", n |-> 0, b |-> <<>>, e |-> "", m |-> <<>>]
\* a []byte that is nil, which writeBulk sends as "$-1" followed by an empty bulk
RNilBulk == [t |-> "nilbulk", n |-> 0, b |-> <<>>, e |-> "", m |-> <<>>]
\* []interface{}: a multi-bulk reply with its items
RMulti(items) == [t |-> "multi", n |-> Len(items), b |-> <<>>, e |-> "", m |-> items]
\* *cmdReplyStream: the announced size and the items that were sent
RStream(size, items) == [t |-> "multi", n |-> size, b |-> <<>>, e |-> "", m |-> items]

\* res.(error)
IsError(r) == r.t = "err"

\* what an engine function hands back to runCommand: its return value, the
\* operations it staged into wb, and whether it panicked instead of returning
Ret(reply, wb) == [reply |-> reply, wb |-> wb, panic |-> FALSE]
Panic(wb) == [reply |-> RNone, wb |-> wb, panic |-> TRUE]

\* "_, err = f(...); if err != nil { return err }; return reply": the error (or
\* panic) of the call r if it has one, else reply with what r staged
Then(r, reply) == IF r.panic \/ IsError(r.reply) THEN r ELSE Ret(reply, r.wb)

InvalidKeyTypeError == "Operation against a key holding the wrong kind of value"
InvalidDataError == "Invalid data"
InvalidIntError == "value is not an integer or out of range"
SyntaxError == "syntax error"
IOError == "IO error"

\* scard / zcard / hlen: the uint32 count in a metadata value carrying tag
Count(s, bad, mk, tag) ==
    LET res == Get(s, bad, mk)
    IN  IF res.err THEN [e |-> IOError, n |-> 0]
        ELSE IF ~res.found THEN [e |-> "", n |-> 0]
        ELSE IF Len(res.v) > 0 /\ res.v[1] # tag THEN [e |-> InvalidKeyTypeError, n |-> 0]
        ELSE IF Len(res.v) < 5 THEN [e |-> InvalidDataError, n |-> 0]
        ELSE [e |-> "", n |-> Uint32(SubSeq(res.v, 2, 5))]

\* setCard / setZcard / setHlen
SetCount(mk, tag, n) == WbPut(mk, <<tag>> \o PutUint32(n))

scard(s, bad, mk) == Count(s, bad, mk, SetCardValue)
setCard(mk, card) == SetCount(mk, SetCardValue, card)
hlen(s, bad, mk) == Count(s, bad, mk, HashLengthValue)
setHlen(mk, length) == SetCount(mk, HashLengthValue, length)
zcard(s, bad, mk) == Count(s, bad, mk, ZCardValue)
setZcard(mk, card) == SetCount(mk, ZCardValue, card)

-----------------------------------------------------------------------------
(* Set engine, set.go *)

\* the loop of Sadd over args[i..]
RECURSIVE SaddLoop(_, _, _, _, _, _, _)
SaddLoop(s, bad, args, i, card, wb, newMembers) ==
    IF i > Len(args) THEN [e |-> "", wb |-> wb, n |-> newMembers]
    ELSE LET k == NewKeyBufferWithSuffix(SetKey, args[1], args[i]).buf
             res == IF card # 0 THEN Get(s, bad, k)
                    ELSE [err |-> FALSE, found |-> FALSE, v |-> <<>>]
         IN  IF res.err THEN [e |-> IOError, wb |-> wb, n |-> newMembers]
             ELSE IF res.found THEN SaddLoop(s, bad, args, i + 1, card, wb, newMembers)
             ELSE SaddLoop(s, bad, args, i + 1, card, Append(wb, WbPut(k, <<>>)), newMembers + 1)

\* Sadd(args, wb), staging onto the operations already in wb
Sadd(s, bad, args, wb) ==
    LET mk == metaKey(args[1])
        card == scard(s, bad, mk)
    IN  IF card.e # "" THEN Ret(RErr(card.e), wb)
        ELSE LET l == SaddLoop(s, bad, args, 2, card.n, wb, 0)
             IN  IF l.e # "" THEN Ret(RErr(l.e), l.wb)
                 ELSE IF l.n > 0 THEN Ret(RInt(l.n), Append(l.wb, setCard(mk, card.n + l.n)))
                 ELSE Ret(RInt(l.n), l.wb)

\* the loop of Srem over args[i..]
RECURSIVE SremLoop(_, _, _, _, _, _)
SremLoop(s, bad, args, i, wb, deleted) ==
    IF i > Len(args) THEN [e |-> "", wb |-> wb, n |-> deleted]
    ELSE LET k == NewKeyBufferWithSuffix(SetKey, args[1], args[i]).buf
             res == Get(s, bad, k)
         IN  IF res.err THEN [e |-> IOError, wb |-> wb, n |-> deleted]
             ELSE IF ~res.found THEN SremLoop(s, bad, args, i + 1, wb, deleted)
             ELSE SremLoop(s, bad, args, i + 1, Append(wb, WbDelete(k)), deleted + 1)

Srem(s, bad, args, wb) ==
    LET mk == metaKey(args[1])
        card == scard(s, bad, mk)
    IN  IF card.e # "" THEN Ret(RErr(card.e), wb)
        ELSE IF card.n = 0 THEN Ret(RInt(card.n), wb)
        ELSE LET l == SremLoop(s, bad, args, 2, wb, 0)
             IN  IF l.e # "" THEN Ret(RErr(l.e), l.wb)
                 ELSE IF l.n = card.n THEN Ret(RInt(l.n), Append(l.wb, WbDelete(mk)))
                 ELSE IF l.n > 0 THEN Ret(RInt(l.n), Append(l.wb, setCard(mk, card.n - l.n)))
                 ELSE Ret(RInt(l.n), l.wb)

\* srand(key) with rand.Read producing the byte r: found, and the member
srand(s, key, r) ==
    LET kb == WriteSuffixForRead(NewKeyBuffer(SetKey, key), <<r>>)
        pos == Seek(s, kb.buf)
    IN  IF pos = NoKey THEN [found |-> FALSE, member |-> <<>>]
        ELSE IF IsPrefixOf(kb, pos) THEN [found |-> TRUE, member |-> parseMemberFromSetKey(pos)]
        ELSE LET k == IterPrev(s, pos)
             IN  IF k # NoKey /\ IsPrefixOf(kb, k)
                 THEN [found |-> TRUE, member |-> parseMemberFromSetKey(k)]
                 ELSE [found |-> FALSE, member |-> <<>>]

Spop(s, bad, args, r, wb) ==
    LET mk == metaKey(args[1])
        card == scard(s, bad, mk)
    IN  IF card.e # "" THEN Ret(RErr(card.e), wb)
        ELSE IF card.n = 0 THEN Ret(RNil, wb)
        ELSE LET m == srand(s, args[1], r)
             IN  IF ~m.found THEN Ret(RNil, wb)
                 ELSE LET k == NewKeyBufferWithSuffix(SetKey, args[1], m.member).buf
                          wb1 == Append(wb, WbDelete(k))
                      IN  IF card.n = 1 THEN Ret(RBulk(m.member), Append(wb1, WbDelete(mk)))
                          ELSE Ret(RBulk(m.member), Append(wb1, setCard(mk, card.n - 1)))

\* Smove after its Srem returned r1
SmoveAdd(s, bad, args, r1) ==
    IF IsError(r1.reply) THEN r1
    ELSE Then(Sadd(s, bad, <<args[2], args[3]>>, r1.wb), RInt(1))

Smove(s, bad, args, wb) ==
    LET resp == Get(s, bad, NewKeyBufferWithSuffix(SetKey, args[1], args[3]).buf)
    IN  IF resp.err THEN Ret(RErr(IOError), wb)
        ELSE IF ~resp.found THEN Ret(RInt(0), wb)
        ELSE SmoveAdd(s, bad, args, Srem(s, bad, <<args[1], args[3]>>, wb))

\* getMember(i) of multiSetIter at iterator position pos
setGetMember(kb, pos) ==
    IF pos = NoKey \/ ~IsPrefixOf(kb, pos) THEN [nil |-> TRUE, member |-> <<>>]
    ELSE [nil |-> FALSE, member |-> Drop(pos, Len(kb.buf))]

\* the loop of multiSetIter.  pos[i] is the position of the iterator of key i
\* (NoKey once it is dropped); the result is what is sent to out, in order.
RECURSIVE multiSetLoop(_, _, _)
multiSetLoop(s, kbs, pos) ==
    LET n == Len(kbs)
        cur == [i \in 1..n |-> setGetMember(kbs[i], pos[i])]
        live == {i \in 1..n : ~cur[i].nil}
    IN  IF live = {} THEN <<>>
        ELSE LET first == CHOOSE i \in live : \A j \in live : LexLeq(cur[i].member, cur[j].member)
                 m == cur[first].member
                 im == [member |-> m,
                        exists |-> [i \in 1..n |-> ~cur[i].nil /\ cur[i].member = m]]
                 pos1 == [i \in 1..n |-> IF im.exists[i] THEN IterNext(s, pos[i])
                                         ELSE IF cur[i].nil THEN NoKey ELSE pos[i]]
             IN  <<im>> \o multiSetLoop(s, kbs, pos1)

multiSetIter(s, keys) ==
    multiSetLoop(s, [i \in 1..Len(keys) |-> NewKeyBuffer(SetKey, keys[i])],
                 [i \in 1..Len(keys) |-> Seek(s, NewKeyBuffer(SetKey, keys[i]).buf)])

SunionOf(ims) == Ret(RMulti([i \in 1..Len(ims) |-> ims[i].member]), <<>>)
Sunion(s, args) == SunionOf(multiSetIter(s, args))


-----------------------------------------------------------------------------
(* Decimal text, strconv *)

IsDigit(c) == c >= 48 /\ c <= 57

RECURSIVE DigitsValue(_, _)
DigitsValue(b, acc) ==
    IF b = <<>> THEN acc ELSE DigitsValue(Tail(b), acc * 10 + (Head(b) - 48))

\* strconv.ParseInt(s, 10, 64) on short texts: an optional sign and digits
ParseInt(b) ==
    LET body == IF b # <<>> /\ (b[1] = 45 \/ b[1] = 43) THEN Tail(b) ELSE b
    IN  IF body = <<>> \/ Len(body) > 4 \/ \E i \in 1..Len(body) : ~IsDigit(body[i])
        THEN [ok |-> FALSE, n |-> 0]
        ELSE [ok |-> TRUE,
              n |-> IF b[1] = 45 THEN -DigitsValue(body, 0) ELSE DigitsValue(body, 0)]

RECURSIVE FormatNat(_)
FormatNat(n) == IF n < 10 THEN <<48 + n>> ELSE FormatNat(n \div 10) \o <<48 + (n % 10)>>

\* strconv.FormatInt(n, 10)
FormatInt(n) == IF n < 0 THEN <<45>> \o FormatNat(-n) ELSE FormatNat(n)

-----------------------------------------------------------------------------
(* Hash engine, network.go:152-473 *)

hset(s, bad, args, overwrite, wb) ==
    LET mk == metaKey(args[1])
        length == hlen(s, bad, mk)
        key == NewKeyBufferWithSuffix(HashKey, args[1], args[2]).buf
    IN  IF length.e # "" THEN Ret(RErr(length.e), wb)
        ELSE LET res == IF length.n # 0 THEN Get(s, bad, key)
                        ELSE [err |-> FALSE, found |-> FALSE, v |-> <<>>]
             IN  IF res.err THEN Ret(RErr(IOError), wb)
                 ELSE LET wb1 == IF overwrite \/ ~res.found THEN Append(wb, WbPut(key, args[3]))
                                 ELSE wb
                      IN  IF ~res.found
                          THEN Ret(RInt(1), Append(wb1, setHlen(mk, length.n + 1)))
                          ELSE Ret(RInt(0), wb1)

Hset(s, bad, args, wb) == hset(s, bad, args, TRUE, wb)
Hsetnx(s, bad, args, wb) == hset(s, bad, args, FALSE, wb)

RECURSIVE HdelLoop(_, _, _, _, _, _)
HdelLoop(s, bad, args, i, wb, deleted) ==
    IF i > Len(args) THEN [e |-> "", wb |-> wb, n |-> deleted]
    ELSE LET k == NewKeyBufferWithSuffix(HashKey, args[1], args[i]).buf
             res == Get(s, bad, k)
         IN  IF res.err THEN [e |-> IOError, wb |-> wb, n |-> deleted]
             ELSE IF ~res.found THEN HdelLoop(s, bad, args, i + 1, wb, deleted)
             ELSE HdelLoop(s, bad, args, i + 1, Append(wb, WbDelete(k)), deleted + 1)

Hdel(s, bad, args, wb) ==
    LET mk == metaKey(args[1])
        length == hlen(s, bad, mk)
    IN  IF length.e # "" THEN Ret(RErr(length.e), wb)
        ELSE IF length.n = 0 THEN Ret(RInt(0), wb)
        ELSE LET l == HdelLoop(s, bad, args, 2, wb, 0)
             IN  IF l.e # "" THEN Ret(RErr(l.e), l.wb)
                 ELSE IF l.n = length.n THEN Ret(RInt(l.n), Append(l.wb, WbDelete(mk)))
                 ELSE IF l.n > 0 THEN Ret(RInt(l.n), Append(l.wb, setHlen(mk, length.n - l.n)))
                 ELSE Ret(RInt(l.n), l.wb)

RECURSIVE HmsetLoop(_, _, _, _, _, _, _)
HmsetLoop(s, bad, args, i, length, wb, added) ==
    IF i > Len(args) THEN [e |-> "", wb |-> wb, n |-> added]
    ELSE LET k == NewKeyBufferWithSuffix(HashKey, args[1], args[i]).buf
             res == IF length # 0 THEN Get(s, bad, k)
                    ELSE [err |-> FALSE, found |-> FALSE, v |-> <<>>]
         IN  IF res.err THEN [e |-> IOError, wb |-> wb, n |-> added]
             ELSE HmsetLoop(s, bad, args, i + 2, length, Append(wb, WbPut(k, args[i + 1])),
                            IF res.found THEN added ELSE added + 1)

Hmset(s, bad, args, wb) ==
    IF (Len(args) - 1) % 2 # 0
    THEN Ret(RErr("wrong number of arguments for 'hmset' command"), wb)
    ELSE LET mk == metaKey(args[1])
             length == hlen(s, bad, mk)
         IN  IF length.e # "" THEN Ret(RErr(length.e), wb)
             ELSE LET l == HmsetLoop(s, bad, args, 2, length.n, wb, 0)
                  IN  IF l.e # "" THEN Ret(RErr(l.e), l.wb)
                      ELSE IF l.n > 0
                      THEN Ret(RStatus("OK"), Append(l.wb, setHlen(mk, length.n + l.n)))
                      ELSE Ret(RStatus("OK"), l.wb)

Hincrby(s, bad, args, wb) ==
    LET mk == metaKey(args[1])
        length == hlen(s, bad, mk)
        key == NewKeyBufferWithSuffix(HashKey, args[1], args[2]).buf
        res == Get(s, bad, key)
        current == IF res.found THEN ParseInt(res.v) ELSE [ok |-> TRUE, n |-> 0]
        increment == ParseInt(args[3])
    IN  IF length.e # "" THEN Ret(RErr(length.e), wb)
        ELSE IF res.err THEN Ret(RErr(IOError), wb)
        ELSE IF ~current.ok THEN Ret(RErr("hash value is not an integer"), wb)
        ELSE IF ~increment.ok THEN Ret(RErr(InvalidIntError), wb)
        ELSE LET result == FormatInt(current.n + increment.n)
                 wb1 == Append(wb, WbPut(key, result))
             IN  IF ~res.found THEN Ret(RBulk(result), Append(wb1, setHlen(mk, length.n + 1)))
                 ELSE Ret(RBulk(result), wb1)

\* DelHash, network.go:434-445 and DelSet, set.go:293-306
RECURSIVE DeleteAll(_, _)
DeleteAll(keys, wb) ==
    IF keys = <<>> THEN wb ELSE DeleteAll(Tail(keys), Append(wb, WbDelete(Head(keys))))

DelHash(s, key, wb) == DeleteAll(PrefixScan(s, NewKeyBuffer(HashKey, key)), wb)
DelSet(s, key, wb) == DeleteAll(PrefixScan(s, NewKeyBuffer(SetKey, key)), wb)


-----------------------------------------------------------------------------
(* float64 scores.  A score is held as the integer it equals; its IEEE-754  *)
(* bit pattern is computed where the code stores or reads the 8 bytes.      *)

RECURSIVE Log2(_)
Log2(n) == IF n < 2 THEN 0 ELSE 1 + Log2(n \div 2)

RECURSIVE Pow2(_)
Pow2(n) == IF n = 0 THEN 1 ELSE 2 * Pow2(n - 1)

\* math.Float64bits(f), big-endian, for an integral f with |f| < 4096
Float64bits(f) ==
    IF f = 0 THEN <<0, 0, 0, 0, 0, 0, 0, 0>>
    ELSE LET a == IF f < 0 THEN -f ELSE f
             e == Log2(a)
             biased == 1023 + e
             m12 == (a - Pow2(e)) * Pow2(12 - e)
         IN  <<(IF f < 0 THEN 128 ELSE 0) + (biased \div 16),
               (biased % 16) * 16 + (m12 \div 256), m12 % 256, 0, 0, 0, 0, 0>>

\* btof: math.Float64frombits(binary.BigEndian.Uint64(b)), same range
btof(b) ==
    LET neg == b[1] >= 128
        biased == (b[1] % 128) * 16 + (b[2] \div 16)
        m12 == (b[2] % 16) * 256 + b[3]
    IN  IF biased = 0 THEN 0
        ELSE LET e == biased - 1023
                 a == Pow2(e) + (m12 \div Pow2(12 - e))
             IN  IF neg THEN -a ELSE a

XorFF(b) == [i \in 1..Len(b) |-> 255 - b[i]]

\* an encoding that flips the sign bit of every score and nothing else
writeSignFlipped(bits) == <<(bits[1] + 128) % 256>> \o Tail(bits)

\* writeByteSortableFloat: the 8 bytes written for the score with bit pattern bits
writeByteSortableFloat(bits) ==
    IF bits[1] >= 128 THEN XorFF(bits)
    ELSE <<bits[1] + 128>> \o Tail(bits)

\* readByteSortableFloat: the bit pattern of the score it returns
readByteSortableFloat(b) ==
    IF b[1] < 128 THEN XorFF(SubSeq(b, 1, 8))
    ELSE <<b[1] - 128>> \o SubSeq(b, 2, 8)

\* strconv.ParseFloat on the texts ParseInt accepts
ParseFloat(b) == ParseInt(b)

\* ftoa for an integral score
ftoa(f) == FormatInt(f)

\* setZScoreKeyMember then setZScoreKeyScore: key | sortable score | member
setZScoreKeyMember(kb, member) == SetSuffix(kb, <<0, 0, 0, 0, 0, 0, 0, 0>> \o member)
setZScoreKeyScore(kb, score) == WriteSuffixForRead(kb, writeByteSortableFloat(Float64bits(score)))

ZScoreKeyOf(key, score, member) ==
    setZScoreKeyScore(setZScoreKeyMember(NewKeyBuffer(ZScoreKey, key), member), score).buf

-----------------------------------------------------------------------------
(* Sorted-set engine, zset.go *)

\* the loop of zadd over the score/member pairs args[i], args[i+1]
RECURSIVE zaddLoop(_, _, _, _, _, _, _, _, _)
zaddLoop(s, bad, args, incr, i, card, wb, newMembers, score) ==
    IF i > Len(args) THEN [e |-> "", wb |-> wb, n |-> newMembers, score |-> score, panic |-> FALSE]
    ELSE LET p == ParseFloat(args[i])
         IN  IF ~p.ok
             THEN [e |-> "not a valid float", wb |-> wb, n |-> newMembers, score |-> score,
                   panic |-> FALSE]
             ELSE IF i + 1 > Len(args)
             THEN [e |-> "", wb |-> wb, n |-> newMembers, score |-> score, panic |-> TRUE]
             ELSE
             LET member == args[i + 1]
                 setKey == NewKeyBufferWithSuffix(ZSetKey, args[1], member).buf
                 res == IF card # 0 THEN Get(s, bad, setKey)
                        ELSE [err |-> FALSE, found |-> FALSE, v |-> <<>>]
             IN  IF res.err
                 THEN [e |-> IOError, wb |-> wb, n |-> newMembers, score |-> p.n, panic |-> FALSE]
                 ELSE IF res.found /\ Len(res.v) # 8
                 THEN [e |-> InvalidDataError, wb |-> wb, n |-> newMembers, score |-> p.n,
                       panic |-> FALSE]
                 ELSE IF res.found
                 THEN LET actualScore == btof(res.v)
                          sc == IF incr THEN p.n + actualScore ELSE p.n
                      IN  IF sc = actualScore
                          THEN zaddLoop(s, bad, args, incr, i + 2, card, wb, newMembers, sc)
                          ELSE zaddLoop(s, bad, args, incr, i + 2, card,
                                        wb \o <<WbDelete(ZScoreKeyOf(args[1], actualScore, member)),
                                                WbPut(setKey, Float64bits(sc)),
                                                WbPut(ZScoreKeyOf(args[1], sc, member), <<>>)>>,
                                        newMembers, sc)
                 ELSE zaddLoop(s, bad, args, incr, i + 2, card,
                               wb \o <<WbPut(setKey, Float64bits(p.n)),
                                       WbPut(ZScoreKeyOf(args[1], p.n, member), <<>>)>>,
                               newMembers + 1, p.n)

\* the end of zadd: l is what the loop over the pairs staged and counted
zaddCard(mk, card, incr, l) ==
    IF l.panic THEN Panic(l.wb)
    ELSE IF l.e # "" THEN Ret(RErr(l.e), l.wb)
    ELSE LET wb1 == IF l.n > 0 THEN Append(l.wb, setZcard(mk, card + l.n)) ELSE l.wb
         IN  IF incr THEN Ret(RBulk(ftoa(l.score)), wb1)
             ELSE Ret(RInt(l.n), wb1)

zadd(s, bad, args, wb, incr) ==
    IF Len(args) < 3 THEN Panic(wb)
    ELSE
    LET mk == metaKey(args[1])
        card == zcard(s, bad, mk)
    IN  IF card.e # "" THEN Ret(RErr(card.e), wb)
        ELSE zaddCard(mk, card.n, incr, zaddLoop(s, bad, args, incr, 2, card.n, wb, 0, 0))

Zadd(s, bad, args, wb) ==
    IF (Len(args) - 1) % 2 # 0
    THEN Ret(RErr("wrong number of arguments for 'zadd' command"), wb)
    ELSE zadd(s, bad, args, wb, FALSE)

Zincrby(s, bad, args, wb) == zadd(s, bad, args, wb, TRUE)

RECURSIVE ZremLoop(_, _, _, _, _, _)
ZremLoop(s, bad, args, i, wb, deleted) ==
    IF i > Len(args) THEN [e |-> "", wb |-> wb, n |-> deleted]
    ELSE LET member == args[i]
             setKey == NewKeyBufferWithSuffix(ZSetKey, args[1], member).buf
             res == Get(s, bad, setKey)
         IN  IF res.err THEN [e |-> "nil", wb |-> wb, n |-> deleted]
             ELSE IF ~res.found THEN ZremLoop(s, bad, args, i + 1, wb, deleted)
             ELSE IF Len(res.v) # 8 THEN [e |-> InvalidDataError, wb |-> wb, n |-> deleted]
             ELSE ZremLoop(s, bad, args, i + 1,
                           wb \o <<WbDelete(setKey),
                                   WbDelete(ZScoreKeyOf(args[1], btof(res.v), member))>>,
                           deleted + 1)

Zrem(s, bad, args, wb) ==
    LET mk == metaKey(args[1])
        card == zcard(s, bad, mk)
    IN  IF card.e # "" THEN Ret(RErr(card.e), wb)
        ELSE IF card.n = 0 THEN Ret(RInt(0), wb)
        ELSE LET l == ZremLoop(s, bad, args, 2, wb, 0)
             IN  IF l.e = "nil" THEN Ret(RNil, l.wb)
                 ELSE IF l.e # "" THEN Ret(RErr(l.e), l.wb)
                 ELSE IF l.n = card.n THEN Ret(RInt(l.n), Append(l.wb, WbDelete(mk)))
                 ELSE IF l.n > 0 THEN Ret(RInt(l.n), Append(l.wb, setZcard(mk, card.n - l.n)))
                 ELSE Ret(RInt(l.n), l.wb)

\* DelZset, zset.go:522-541
RECURSIVE DelZsetLoop(_, _, _, _)
DelZsetLoop(s, key, keys, wb) ==
    IF keys = <<>> THEN wb
    ELSE LET k == Head(keys)
             member == Drop(k, Len(NewKeyBuffer(ZSetKey, key).buf))
         IN  DelZsetLoop(s, key, Tail(keys),
                         wb \o <<WbDelete(k), WbDelete(ZScoreKeyOf(key, btof(s[k]), member))>>)

DelZset(s, key, wb) == DelZsetLoop(s, key, PrefixScan(s, NewKeyBuffer(ZSetKey, key)), wb)


-----------------------------------------------------------------------------
(* DEL and the string engine, commands.go:249-285, cluster/cluster.go:92-176 *)

DelString(key, wb) == Append(wb, WbDelete(stringKey(key)))

\* del(key, t, wb): the staged deletes, or a panic on a tag without a case
del(s, key, t, wb) ==
    IF t = StringLengthValue THEN Ret(RNone, DelString(key, wb))
    ELSE IF t = HashLengthValue THEN Ret(RNone, DelHash(s, key, wb))
    ELSE IF t = SetCardValue THEN Ret(RNone, DelSet(s, key, wb))
    ELSE IF t = ZCardValue THEN Ret(RNone, DelZset(s, key, wb))
    ELSE Panic(wb)

RECURSIVE DelLoop(_, _, _, _, _, _)
DelLoop(s, bad, args, i, wb, deleted) ==
    IF i > Len(args) THEN Ret(RInt(deleted), wb)
    ELSE LET k == metaKey(args[i])
             res == Get(s, bad, k)
         IN  IF res.err THEN Ret(RErr(IOError), wb)
             ELSE IF ~res.found THEN DelLoop(s, bad, args, i + 1, wb, deleted)
             ELSE IF Len(res.v) = 0 THEN Ret(RErr(InvalidDataError), wb)
             ELSE LET d == del(s, args[i], res.v[1], wb)
                  IN  IF d.panic THEN d
                      ELSE DelLoop(s, bad, args, i + 1, Append(d.wb, WbDelete(k)), deleted + 1)

Del(s, bad, args, wb) ==
    IF Len(args) = 0 THEN Panic(wb) ELSE DelLoop(s, bad, args, 1, wb, 0)

setStringLen(mk, length) == WbPut(mk, <<StringLengthValue>> \o PutUint32(length))

\* set(k, v, wb)
set(s, bad, k, v, wb) ==
    LET mk == metaKey(k)
        res == Get(s, bad, mk)
    IN  IF res.err THEN Ret(RErr(IOError), wb)
        ELSE LET d == IF Len(res.v) > 0 /\ res.v[1] # StringLengthValue
                      THEN del(s, k, res.v[1], wb)
                      ELSE Ret(RNone, wb)
             IN  IF d.panic THEN d
                 ELSE Ret(RStatus("OK"), d.wb \o <<setStringLen(mk, Len(v)), WbPut(stringKey(k), v)>>)

Set(s, bad, args, wb) ==
    IF Len(args) < 2 THEN Panic(wb) ELSE set(s, bad, args[1], args[2], wb)

\* Get reads the StringKey record and never the metadata
Get_(s, bad, args) ==
    IF Len(args) < 1 THEN Panic(<<>>)
    ELSE LET res == Get(s, bad, stringKey(args[1]))
         IN  IF res.err THEN Ret(RErr(IOError), <<>>)
             ELSE IF ~res.found THEN Ret(RNilBulk, <<>>)
             ELSE Ret(RBulk(res.v), <<>>)

Type(s, bad, args) ==
    IF Len(args) < 1 THEN Panic(<<>>)
    ELSE LET res == Get(s, bad, metaKey(args[1]))
         IN  IF res.err THEN Ret(RErr(IOError), <<>>)
             ELSE IF ~res.found THEN Ret(RStatus("none"), <<>>)
             ELSE IF Len(res.v) = 0 THEN Ret(RErr(InvalidDataError), <<>>)
             ELSE IF res.v[1] = StringLengthValue THEN Ret(RStatus("string"), <<>>)
             ELSE IF res.v[1] = HashLengthValue THEN Ret(RStatus("hash"), <<>>)
             ELSE IF res.v[1] = ListLengthValue THEN Ret(RStatus("list"), <<>>)
             ELSE IF res.v[1] = SetCardValue THEN Ret(RStatus("set"), <<>>)
             ELSE IF res.v[1] = ZCardValue THEN Ret(RStatus("zset"), <<>>)
             ELSE Panic(<<>>)

-----------------------------------------------------------------------------
(* List engine, list.go *)

\* llen: listDetails{flags, length, left, right}
llen(s, bad, mk) ==
    LET res == Get(s, bad, mk)
    IN  IF res.err THEN [e |-> IOError, length |-> 0, flags |-> 0, left |-> 0, right |-> 1]
        ELSE IF ~res.found THEN [e |-> "", length |-> 0, flags |-> 0, left |-> 0, right |-> 1]
        ELSE IF Len(res.v) < 22 \/ res.v[1] # ListLengthValue
        THEN [e |-> InvalidDataError, length |-> 0, flags |-> 0, left |-> 0, right |-> 1]
        ELSE [e |-> "", length |-> Uint32(SubSeq(res.v, 2, 5)), flags |-> res.v[6],
              left |-> Int64(SubSeq(res.v, 7, 14)), right |-> Int64(SubSeq(res.v, 15, 22))]

setLlen(mk, l) ==
    WbPut(mk, <<ListLengthValue>> \o PutUint32(l.length) \o <<l.flags>>
              \o PutInt64(l.left) \o PutInt64(l.right))

ListElemKey(key, seq) == WriteSuffixForRead(NewKeyBuffer(ListKey, key), PutSeq(seq)).buf

\* the loop of lpush over the values args[i..]
RECURSIVE lpushLoop(_, _, _, _, _, _)
lpushLoop(key, args, i, left, l, wb) ==
    IF i > Len(args) THEN [l |-> l, wb |-> wb]
    ELSE LET seq == IF left THEN l.left ELSE l.right
             l1 == [l EXCEPT !.length = l.length + 1,
                             !.left = IF left THEN l.left - 1 ELSE l.left,
                             !.right = IF left THEN l.right ELSE l.right + 1]
         IN  lpushLoop(key, args, i + 1, left, l1, Append(wb, WbPut(ListElemKey(key, seq), args[i])))

lpush(s, bad, args, left, create, wb) ==
    IF Len(args) = 0 THEN Panic(wb)
    ELSE
    LET mk == metaKey(args[1])
        l == llen(s, bad, mk)
    IN  IF l.e # "" THEN Ret(RErr(l.e), wb)
        ELSE IF create \/ l.length # 0
        THEN LET r == lpushLoop(args[1], args, 2, left, l, wb)
             IN  Ret(RInt(r.l.length), Append(r.wb, setLlen(mk, r.l)))
        ELSE Ret(RInt(l.length), wb)

Lpush(s, bad, args, wb) == lpush(s, bad, args, TRUE, TRUE, wb)
Lpushx(s, bad, args, wb) == lpush(s, bad, args, TRUE, FALSE, wb)
Rpush(s, bad, args, wb) == lpush(s, bad, args, FALSE, TRUE, wb)
Rpushx(s, bad, args, wb) == lpush(s, bad, args, FALSE, FALSE, wb)

\* what it.Prev() does on an iterator that is not Valid(): LevelDB requires
\* Valid() before Prev(), so the call is undefined; the builds either abort
\* the process or leave the iterator invalid
PrevOnInvalid == {"abort", "invalid"}

\* lpop(key, left, wb); ub chooses the outcome of a Prev() on an invalid iterator
lpop(s, bad, key, left, ub, wb) ==
    LET mk == metaKey(key)
        l == llen(s, bad, mk)
        iterKey == IF left THEN NewKeyBuffer(ListKey, key)
                   ELSE ReverseIterKey(NewKeyBuffer(ListKey, key))
        sought == Seek(s, iterKey.buf)
        k == IF left THEN sought
             ELSE IF sought = NoKey THEN NoKey
             ELSE IterPrev(s, sought)
    IN  IF l.e # "" THEN Ret(RErr(l.e), wb)
        ELSE IF l.length = 0 THEN Ret(RNil, wb)
        ELSE IF ~left /\ sought = NoKey /\ ub = "abort" THEN Panic(wb)
        ELSE IF k = NoKey THEN Ret(RNil, wb)
        ELSE IF ~IsPrefixOf(iterKey, k) THEN Ret(RNil, wb)
        ELSE LET wb1 == Append(wb, WbDelete(k))
                 seq == SeqOf(Drop(k, Len(key) + 5))
                 l1 == [l EXCEPT !.length = l.length - 1,
                                 !.left = IF left THEN seq ELSE l.left,
                                 !.right = IF left THEN l.right ELSE seq]
             IN  IF l1.length = 0 THEN Ret(RBulk(s[k]), Append(wb1, WbDelete(mk)))
                 ELSE Ret(RBulk(s[k]), Append(wb1, setLlen(mk, l1)))

Lpop(s, bad, args, ub, wb) ==
    IF Len(args) = 0 THEN Panic(wb) ELSE lpop(s, bad, args[1], TRUE, ub, wb)
Rpop(s, bad, args, ub, wb) ==
    IF Len(args) = 0 THEN Panic(wb) ELSE lpop(s, bad, args[1], FALSE, ub, wb)

\* Rpoplpush after its lpop returned res
RpoplpushPush(s, bad, args, res) ==
    IF res.panic \/ IsError(res.reply) THEN res
    ELSE IF res.reply.t = "nil" THEN Ret(RNil, res.wb)
    ELSE IF Len(args) < 2 THEN Panic(res.wb)
    ELSE Then(lpush(s, bad, <<args[2], res.reply.b>>, TRUE, TRUE, res.wb), res.reply)

Rpoplpush(s, bad, args, ub, wb) ==
    IF Len(args) = 0 THEN Panic(wb)
    ELSE RpoplpushPush(s, bad, args, lpop(s, bad, args[1], FALSE, ub, wb))

\* parseRange(args, length), commands.go:300-321
parseRange(args, length) ==
    LET a == ParseInt(args[1])
        b == ParseInt(args[2])
        start == IF a.n < 0 THEN a.n + length ELSE a.n
        end0 == IF b.n < 0 THEN b.n + length ELSE b.n
        end == IF end0 > length THEN length - 1 ELSE end0
    IN  IF ~a.ok \/ ~b.ok THEN [e |-> InvalidIntError, start |-> 0, end |-> 0]
        ELSE [e |-> "", start |-> start, end |-> end]

\* the values at the first n positions of the iterator from cur on:
\* for i := 0; it.Valid() && i < count; i++ { items <- it.Value(); it.Next() }
RECURSIVE StreamValues(_, _, _)
StreamValues(s, cur, n) ==
    IF cur = NoKey \/ n <= 0 THEN <<>>
    ELSE <<s[cur]>> \o StreamValues(s, IterNext(s, cur), n - 1)

\* the stream of Lrange once the range pr is parsed
LrangeStream(s, key, l, pr) ==
    IF pr.e # "" THEN Ret(RErr(pr.e), <<>>)
    ELSE IF pr.start > pr.end THEN Ret(RMulti(<<>>), <<>>)
    ELSE Ret(RStream(pr.end + 1 - pr.start,
                     StreamValues(s, Seek(s, ListElemKey(key, l.left + 1 + pr.start)),
                                  pr.end + 1 - pr.start)), <<>>)

\* Lrange(args, wb): key, start, end
Lrange(s, bad, args) ==
    LET l == llen(s, bad, metaKey(args[1]))
    IN  IF l.e # "" THEN Ret(RErr(l.e), <<>>)
        ELSE IF l.length = 0 THEN Ret(RMulti(<<>>), <<>>)
        ELSE LrangeStream(s, args[1], l, parseRange(Tail(args), l.length))

\* the snapshots Lrange took and has not released when it and its stream are
\* done: DB.NewSnapshot() on entry, DB.ReleaseSnapshot(snapshot) on the paths
\* that have it
LrangeHeld(s, bad, args) ==
    LET l == llen(s, bad, metaKey(args[1]))
    IN  IF l.e # "" THEN 1 - 1
        ELSE IF l.length = 0 THEN 1 - 1
        ELSE IF parseRange(Tail(args), l.length).e # "" THEN 1
        ELSE 1 - 1


-----------------------------------------------------------------------------
(* RESTORE, cluster/cluster.go:14-24 and the rdbDecoder callbacks.  The RDB *)
(* codec is a library: a dump is held decoded, as                           *)
(* [t |-> type, items |-> sequence of <<a, b>>], and the decoder calls      *)
(* Start<T>(key, number of items), then one callback per item.              *)

RECURSIVE rdbItems(_, _, _, _, _)
rdbItems(key, t, items, i, wb) ==
    IF i > Len(items) THEN wb
    ELSE LET it == items[i]
             ops == IF t = "hash"
                    THEN <<WbPut(NewKeyBufferWithSuffix(HashKey, key, it[1]).buf, it[2])>>
                    ELSE IF t = "set"
                    THEN <<WbPut(NewKeyBufferWithSuffix(SetKey, key, it[1]).buf, <<>>)>>
                    ELSE IF t = "list"
                    THEN <<WbPut(ListElemKey(key, i), it[1])>>
                    ELSE <<WbPut(NewKeyBufferWithSuffix(ZSetKey, key, it[1]).buf,
                                 Float64bits(btof(it[2]))),
                           WbPut(ZScoreKeyOf(key, btof(it[2]), it[1]), <<>>)>>
         IN  rdbItems(key, t, items, i + 1, wb \o ops)

\* rdbDecoder.Set / StartHash / StartSet / StartList / StartZSet and the items,
\* d being what the Del of the key staged
rdbDecode(key, dump, d) ==
    LET mk == metaKey(key)
        n == Len(dump.items)
    IN  IF d.panic THEN d
        ELSE IF dump.t = "string"
        THEN Ret(RNone, d.wb \o <<setStringLen(mk, Len(dump.items[1][1])),
                                  WbPut(stringKey(key), dump.items[1][1])>>)
        ELSE LET start == IF dump.t = "hash" THEN setHlen(mk, n)
                          ELSE IF dump.t = "set" THEN setCard(mk, n)
                          ELSE IF dump.t = "zset" THEN setZcard(mk, n)
                          ELSE setLlen(mk, [length |-> n, flags |-> 0, left |-> 0,
                                            right |-> n + 2])
             IN  Ret(RNone, rdbItems(key, dump.t, dump.items, 1, Append(d.wb, start)))

rdbDecoder(s, bad, key, dump, wb) == rdbDecode(key, dump, Del(s, bad, <<key>>, wb))

\* Restore(args, wb) with args = key, ttl, dump
Restore(s, bad, args, wb) ==
    IF Len(args) < 3 THEN Panic(wb)
    ELSE IF ~ParseInt(args[2]).ok THEN Ret(RErr(InvalidIntError), wb)
    ELSE IF args[3].t = "invalid" THEN Ret(RErr("rdb: invalid dump"), wb)
    ELSE Then(rdbDecoder(s, bad, args[1], args[3], wb), RStatus("OK"))

\* what the encoder wrote, read as a dump: the type, and the items if their
\* number is the length written before them
Encoded(t, length, items) ==
    IF length = Len(items) THEN [t |-> t, items |-> items]
    ELSE [t |-> "invalid", items |-> items]

\* encodeHash, encodeList and encodeSet: the items of the records under the
\* prefix of tag and key
encodeItems(s, tag, key) ==
    LET kb == NewKeyBuffer(tag, key)
        ks == PrefixScan(s, kb)
    IN  [i \in 1..Len(ks) |->
            IF tag = HashKey THEN <<Drop(ks[i], Len(kb.buf)), s[ks[i]]>>
            ELSE IF tag = ListKey THEN <<s[ks[i]], <<>>>>
            ELSE <<Drop(ks[i], Len(kb.buf)), <<>>>>]

\* the loop of encodeZSet from position pos backwards; parseZScoreKey slices
\* b[keyLen+5:] and b[keyLen+13:] and panics on a key that is too short
RECURSIVE encodeZSetLoop(_, _, _, _)
encodeZSetLoop(s, kb, pos, items) ==
    IF pos = NoKey \/ ~IsPrefixOf(kb, pos) THEN [panic |-> FALSE, items |-> items]
    ELSE IF Len(pos) < Len(kb.buf) + 8 THEN [panic |-> TRUE, items |-> items]
    ELSE encodeZSetLoop(s, kb, IterPrev(s, pos),
                        Append(items, <<Drop(pos, Len(kb.buf) + 8),
                                        readByteSortableFloat(Drop(pos, Len(kb.buf)))>>))

\* encodeZSet: Seek to the reverse key, then Prev; ub is what Prev does on an
\* iterator that is not valid
encodeZSet(s, key, length, ub) ==
    LET kb == ReverseIterKey(NewKeyBuffer(ZScoreKey, key))
        sought == Seek(s, kb.buf)
        r == encodeZSetLoop(s, kb, IF sought = NoKey THEN NoKey ELSE IterPrev(s, sought), <<>>)
    IN  IF sought = NoKey /\ ub = "abort" THEN Panic(<<>>)
        ELSE IF r.panic THEN Panic(<<>>)
        ELSE Ret(RBulk(Encoded("zset", length, r.items)), <<>>)

\* rdbEncoder.encodeKey(key, true) as dumpKey and Dump return it
encodeKey(s, bad, key, ub) ==
    LET res == Get(s, bad, metaKey(key))
        length == Uint32(SubSeq(res.v, 2, 5))
        str == Get(s, bad, stringKey(key))
    IN  IF res.err THEN Ret(RErr(IOError), <<>>)
        ELSE IF ~res.found THEN Ret(RNilBulk, <<>>)
        ELSE IF Len(res.v) < 5 THEN Ret(RErr(InvalidDataError), <<>>)
        ELSE IF res.v[1] = StringLengthValue
        THEN IF str.err THEN Ret(RErr(IOError), <<>>)
             ELSE Ret(RBulk([t |-> "string", items |-> <<<<str.v, <<>>>>>>]), <<>>)
        ELSE IF res.v[1] = HashLengthValue
        THEN Ret(RBulk(Encoded("hash", length, encodeItems(s, HashKey, key))), <<>>)
        ELSE IF res.v[1] = SetCardValue
        THEN Ret(RBulk(Encoded("set", length, encodeItems(s, SetKey, key))), <<>>)
        ELSE IF res.v[1] = ListLengthValue
        THEN Ret(RBulk(Encoded("list", length, encodeItems(s, ListKey, key))), <<>>)
        ELSE IF res.v[1] = ZCardValue THEN encodeZSet(s, key, length, ub)
        ELSE Panic(<<>>)

Dump(s, bad, args, ub) ==
    IF Len(args) < 1 THEN Panic(<<>>) ELSE encodeKey(s, bad, args[1], ub)

\* the target instances MIGRATE is pointed at, by host name: "u" answers OK to
\* SELECT and RESTORE, "d" refuses the connection, "s" answers SELECT with an
\* error and "t" not in time, "r" answers RESTORE with an error and "o" not in
\* time
UpHost == <<117>>
Hosts == {UpHost, <<100>>, <<115>>, <<116>>, <<114>>, <<111>>}
Target(host) ==
    [dial |-> IF host = <<100>> THEN "fail" ELSE "ok",
     select |-> IF host = <<115>> THEN "error" ELSE IF host = <<116>> THEN "timeout" ELSE "OK",
     restore |-> IF host = <<114>> THEN "error" ELSE IF host = <<111>> THEN "timeout" ELSE "OK"]

\* delKey(metaKey(key), wb): the local DEL of the key
delKey(s, bad, key, wb) == Del(s, bad, <<key>>, wb)

\* the end of Migrate: d is what delKey returned
migrateDel(d) ==
    IF d.panic THEN d
    ELSE IF IsError(d.reply) THEN Ret(RErr(IOError), d.wb)
    ELSE Ret(RStatus("OK"), d.wb)

\* Migrate after dumpKey returned data: on a failed dial r is nil and the
\* deferred r.Close() panics
migrateSend(s, bad, args, data, wb) ==
    LET tg == Target(args[1])
    IN  IF data.panic THEN data
        ELSE IF IsError(data.reply) THEN data
        ELSE IF data.reply = RNilBulk THEN Ret(RStatus("NOKEY"), wb)
        ELSE IF tg.dial = "fail" THEN Panic(wb)
        ELSE IF tg.select = "error" THEN Ret(RErr("Target instance replied with error"), wb)
        ELSE IF tg.select # "OK" THEN Ret(RErr(IOError), wb)
        ELSE IF tg.restore = "error" THEN Ret(RErr("Target instance replied with error"), wb)
        ELSE IF tg.restore # "OK" THEN Ret(RErr(IOError), wb)
        ELSE migrateDel(delKey(s, bad, args[3], wb))

\* Migrate(args, wb) with args = host, port, key, db, timeout
Migrate(s, bad, args, ub, wb) ==
    IF Len(args) < 5 THEN Panic(wb)
    ELSE IF ~ParseInt(args[5]).ok THEN Ret(RErr(InvalidIntError), wb)
    ELSE migrateSend(s, bad, args, encodeKey(s, bad, args[3], ub), wb)


-----------------------------------------------------------------------------
(* ZUNIONSTORE / ZINTERSTORE, zset.go:189-438 *)

zsetUnion == 0
zsetInter == 1
zsetAggSum == 0
zsetAggMin == 1
zsetAggMax == 2

\* bytes.ToLower
ToLower(b) == [i \in 1..Len(b) |-> IF b[i] >= 65 /\ b[i] <= 90 THEN b[i] + 32 ELSE b[i]]

TxtWeights == <<119, 101, 105, 103, 104, 116, 115>>
TxtAggregate == <<97, 103, 103, 114, 101, 103, 97, 116, 101>>
TxtSum == <<115, 117, 109>>
TxtMin == <<109, 105, 110>>
TxtMax == <<109, 97, 120>>

\* the iterator multiZsetIter opens for input key k: over the ZSetKey records
\* if zcard finds a non-empty sorted set, else over the SetKey records
zsetIterKey(s, bad, k) ==
    LET card == zcard(s, bad, metaKey(k))
    IN  IF card.e = "" /\ card.n # 0 THEN NewKeyBuffer(ZSetKey, k) ELSE NewKeyBuffer(SetKey, k)

\* getMember(i) at iterator position pos
zsetGetMember(s, kb, pos) ==
    IF pos = NoKey \/ ~IsPrefixOf(kb, pos) THEN [nil |-> TRUE, member |-> <<>>, score |-> 0]
    ELSE [nil |-> FALSE, member |-> Drop(pos, Len(kb.buf)),
          score |-> IF kb.buf[1] = ZSetKey THEN btof(s[pos]) ELSE 1]

\* one round of multiZsetIter's loop.  pos[i] is the position of iterator i
\* (NoKey once it is exhausted); the result is the emitted members in order.
RECURSIVE multiZsetIter(_, _, _, _)
multiZsetIter(s, kbs, pos, stopEarly) ==
    LET n == Len(kbs)
        cur == [i \in 1..n |-> zsetGetMember(s, kbs[i], pos[i])]
        live == {i \in 1..n : ~cur[i].nil}
    IN  IF n > 0 /\ cur[1].nil /\ stopEarly THEN <<>>
        ELSE IF live = {} THEN <<>>
        ELSE LET first == CHOOSE i \in live : \A j \in live : LexLeq(cur[i].member, cur[j].member)
                 m == cur[first].member
                 im == [member |-> m,
                        exists |-> [i \in 1..n |-> ~cur[i].nil /\ cur[i].member = m],
                        scores |-> [i \in 1..n |-> IF ~cur[i].nil /\ cur[i].member = m
                                                   THEN cur[i].score ELSE 0]]
                 pos1 == [i \in 1..n |-> IF im.exists[i] THEN IterNext(s, pos[i])
                                         ELSE IF cur[i].nil THEN NoKey ELSE pos[i]]
             IN  <<im>> \o multiZsetIter(s, kbs, pos1, stopEarly)

\* the scores of the inputs that hold the member, in input order
RECURSIVE ExistingScores(_, _)
ExistingScores(im, i) ==
    IF i > Len(im.exists) THEN <<>>
    ELSE (IF im.exists[i] THEN <<im.scores[i]>> ELSE <<>>) \o ExistingScores(im, i + 1)

RECURSIVE SeqSum(_)
SeqSum(q) == IF q = <<>> THEN 0 ELSE Head(q) + SeqSum(Tail(q))
SeqMin(q) == CHOOSE x \in {q[i] : i \in 1..Len(q)} : \A i \in 1..Len(q) : x <= q[i]
SeqMax(q) == CHOOSE x \in {q[i] : i \in 1..Len(q)} : \A i \in 1..Len(q) : x >= q[i]

\* the score combineZset stores for one emitted member
combineScore(im, weights, aggregate) ==
    LET present == ExistingScores(im, 1)
        scores == [i \in 1..Len(present) |-> present[i] * weights[i]]
    IN  IF aggregate = zsetAggSum THEN SeqSum(scores)
        ELSE IF aggregate = zsetAggMin THEN SeqMin(scores)
        ELSE SeqMax(scores)

\* the COMBINEOUTER loop
RECURSIVE combineLoop(_, _, _, _, _, _, _)
combineLoop(dest, ims, op, weights, aggregate, wb, count) ==
    IF ims = <<>> THEN [wb |-> wb, count |-> count]
    ELSE LET im == Head(ims)
         IN  IF op = zsetInter /\ \E i \in 1..Len(im.exists) : ~im.exists[i]
             THEN combineLoop(dest, Tail(ims), op, weights, aggregate, wb, count)
             ELSE LET score == combineScore(im, weights, aggregate)
                  IN  combineLoop(dest, Tail(ims), op, weights, aggregate,
                          wb \o <<WbPut(NewKeyBufferWithSuffix(ZSetKey, dest, im.member).buf,
                                        Float64bits(score)),
                                  WbPut(ZScoreKeyOf(dest, score, im.member), <<>>)>>,
                          count + 1)

\* the parse of the options after the keys: weights, aggregate, or an error
zsetOptions(args, numKeys) ==
    LET n == Len(args)
        off0 == 2 + numKeys
        hasW == n > off0 /\ n > off0 + numKeys
        wOK == hasW /\ ToLower(args[off0 + 1]) = TxtWeights
        off1 == IF wOK THEN off0 + numKeys + 1 ELSE off0
        ws == [i \in 1..numKeys |-> IF wOK THEN ParseFloat(args[numKeys + 3 + i])
                                    ELSE [ok |-> TRUE, n |-> 1]]
        agg == IF n > off1 THEN ToLower(args[off1 + 2]) ELSE TxtSum
    IN  IF hasW /\ ~wOK THEN [e |-> SyntaxError, weights |-> <<>>, aggregate |-> 0]
        ELSE IF \E i \in 1..numKeys : ~ws[i].ok
        THEN [e |-> "weight value is not a float", weights |-> <<>>, aggregate |-> 0]
        ELSE IF n > off1 /\ ~(n = off1 + 2 /\ ToLower(args[off1 + 1]) = TxtAggregate)
        THEN [e |-> SyntaxError, weights |-> <<>>, aggregate |-> 0]
        ELSE IF n > off1 /\ agg \notin {TxtSum, TxtMin, TxtMax}
        THEN [e |-> SyntaxError, weights |-> <<>>, aggregate |-> 0]
        ELSE [e |-> "", weights |-> [i \in 1..numKeys |-> ws[i].n],
              aggregate |-> IF agg = TxtMin THEN zsetAggMin
                            ELSE IF agg = TxtMax THEN zsetAggMax ELSE zsetAggSum]

\* combineZset(args, op, wb) with wb != nil; args = dest, numkeys, keys..., options
\* the end of combineZset: r is what the loop over the members staged and counted
combineCard(dest, r) ==
    IF r.count > 0
    THEN Ret(RInt(r.count), Append(r.wb, setZcard(metaKey(dest), r.count)))
    ELSE Ret(RInt(r.count), r.wb)

\* combineZset after Del(dest) returned d and numKeys parsed as nk
combineKeys(s, bad, args, op, d, nk) ==
    IF d.panic THEN d
    ELSE IF IsError(d.reply) THEN d
    ELSE IF ~nk.ok THEN Ret(RErr(InvalidIntError), d.wb)
    ELSE IF nk.n < 0 THEN Panic(d.wb)
    ELSE LET o == zsetOptions(args, nk.n)
         IN  IF o.e # "" THEN Ret(RErr(o.e), d.wb)
             ELSE IF nk.n + 2 > Len(args) THEN Panic(d.wb)
             ELSE LET kbs == [i \in 1..nk.n |-> zsetIterKey(s, bad, args[2 + i])]
                      pos == [i \in 1..nk.n |-> Seek(s, kbs[i].buf)]
                      ims == multiZsetIter(s, kbs, pos, op # zsetUnion)
                  IN  combineCard(args[1],
                          combineLoop(args[1], ims, op, o.weights, o.aggregate, d.wb, 0))

combineZset(s, bad, args, op, wb) ==
    IF Len(args) < 2 THEN Panic(wb)
    ELSE combineKeys(s, bad, args, op, Del(s, bad, <<args[1]>>, wb), ParseInt(args[2]))

Zunionstore(s, bad, args, wb) == combineZset(s, bad, args, zsetUnion, wb)
Zinterstore(s, bad, args, wb) == combineZset(s, bad, args, zsetInter, wb)

TxtWithscores == <<119, 105, 116, 104, 115, 99, 111, 114, 101, 115>>

\* ftoa of the score with bit pattern bits; a score outside the range btof
\* covers prints as "?"
ftoaBits(bits) ==
    LET biased == (bits[1] % 128) * 16 + (bits[2] \div 16)
    IN  IF biased = 0 \/ (biased >= 1023 /\ biased <= 1034) THEN ftoa(btof(bits))
        ELSE <<63>>

Zscore(s, bad, args) ==
    IF Len(args) < 2 THEN Panic(<<>>)
    ELSE LET res == Get(s, bad, NewKeyBufferWithSuffix(ZSetKey, args[1], args[2]).buf)
         IN  IF res.err THEN Ret(RErr(IOError), <<>>)
             ELSE IF ~res.found THEN Ret(RNil, <<>>)
             ELSE IF Len(res.v) # 8 THEN Ret(RErr(InvalidDataError), <<>>)
             ELSE Ret(RBulk(ftoaBits(res.v)), <<>>)

\* parseZScoreKey(b, keyLen) and what zrange sends for it: the slices b[keyLen+5:]
\* and b[keyLen+13:] panic on a key that is too short
parseZScoreKey(b, keyLen, withscores) ==
    IF Len(b) < keyLen + 13 THEN [panic |-> TRUE, items |-> <<>>]
    ELSE [panic |-> FALSE,
          items |-> IF withscores
                    THEN <<Drop(b, keyLen + 13),
                           ftoaBits(readByteSortableFloat(Drop(b, keyLen + 5)))>>
                    ELSE <<Drop(b, keyLen + 13)>>]

\* the loop of zrange's goroutine: pos is the iterator (NoKey when it is not
\* valid), i the index, sent the items sent so far
RECURSIVE zrangeLoop(_, _, _, _, _, _, _, _)
zrangeLoop(s, keyLen, pos, i, start, end, opt, sent) ==
    IF pos = NoKey \/ i > end THEN [panic |-> FALSE, items |-> sent]
    ELSE LET at == IF opt.reverse THEN IterPrev(s, pos) ELSE pos
             p == IF at = NoKey THEN [panic |-> TRUE, items |-> <<>>]
                  ELSE parseZScoreKey(at, keyLen, opt.withscores)
         IN  IF i >= start /\ p.panic THEN [panic |-> TRUE, items |-> sent]
             ELSE zrangeLoop(s, keyLen, IF opt.reverse THEN at ELSE IterNext(s, pos),
                             i + 1, start, end, opt,
                             IF i >= start THEN sent \o p.items ELSE sent)

\* zrange once the range pr is parsed
zrangeStream(s, args, pr, reverse) ==
    LET withscores == Len(args) >= 4
        iterKey == IF reverse THEN ReverseIterKey(NewKeyBuffer(ZScoreKey, args[1]))
                   ELSE NewKeyBuffer(ZScoreKey, args[1])
        n == pr.end + 1 - pr.start
    IN  IF pr.e # "" THEN Ret(RErr(pr.e), <<>>)
        ELSE IF pr.start > pr.end THEN Ret(RMulti(<<>>), <<>>)
        ELSE IF withscores /\ (ToLower(args[4]) # TxtWithscores \/ Len(args) > 4)
        THEN Ret(RErr(SyntaxError), <<>>)
        ELSE LET r == zrangeLoop(s, Len(args[1]), Seek(s, iterKey.buf), 0, pr.start, pr.end,
                                 [reverse |-> reverse, withscores |-> withscores], <<>>)
             IN  IF r.panic THEN Panic(<<>>)
                 ELSE Ret(RStream(IF withscores THEN 2 * n ELSE n, r.items), <<>>)

\* zrange(args, reverse): key, start, end and an optional WITHSCORES
zrange(s, bad, args, reverse) ==
    LET count == zcard(s, bad, metaKey(args[1]))
    IN  IF count.e # "" THEN Ret(RErr(count.e), <<>>)
        ELSE IF count.n = 0 THEN Ret(RMulti(<<>>), <<>>)
        ELSE zrangeStream(s, args, parseRange(SubSeq(args, 2, 3), count.n), reverse)

Zrange(s, bad, args) == zrange(s, bad, args, FALSE)
Zrevrange(s, bad, args) == zrange(s, bad, args, TRUE)


-----------------------------------------------------------------------------
(* Lock ring, lockring/lockring.go and unnamed/part_002 *)

LockRingSize == 1024

\* bitwise exclusive or of the n low bits of a and b
RECURSIVE Xor(_, _, _)
Xor(a, b, n) ==
    IF n = 0 THEN 0
    ELSE ((a + b) % 2) + 2 * Xor(a \div 2, b \div 2, n - 1)

\* One shift step of the reflected CRC-32 (IEEE, polynomial 0xEDB88320).  The
\* 32-bit register is held as <<high 16 bits, low 16 bits>>.
crcShift(c) ==
    LET hi == c[1] \div 2
        lo == (c[2] \div 2) + (c[1] % 2) * 32768
    IN  IF c[2] % 2 = 1 THEN <<Xor(hi, 60856, 16), Xor(lo, 33568, 16)>> ELSE <<hi, lo>>

RECURSIVE crcShifts(_, _)
crcShifts(c, n) == IF n = 0 THEN c ELSE crcShifts(crcShift(c), n - 1)

RECURSIVE crcBytes(_, _)
crcBytes(c, k) ==
    IF k = <<>> THEN c
    ELSE crcBytes(crcShifts(<<c[1], Xor(c[2], Head(k), 16)>>, 8), Tail(k))

\* crc32.ChecksumIEEE(k) % 1024: the low ten bits of the inverted register
crcMod1024(k) == (65535 - crcBytes(<<65535, 65535>>, k)[2]) % 1024

\* user keys "a" and "b", and "z" that holds only sets
UserKeys == {<<97>>, <<98>>}
LaterKey == <<122>>
AllKeys == UserKeys \cup {LaterKey}

\* crc32.ChecksumIEEE(k) % size for the keys in use, computed once
lockSlots == [k \in AllKeys |-> crcMod1024(k) % LockRingSize]

\* LockRing.lockForKey: the index of the mutex for user key k
lockForKey(k) == IF k \in AllKeys THEN lockSlots[k] ELSE crcMod1024(k) % LockRingSize

-----------------------------------------------------------------------------
(* Command registry, commands.go:57-169 *)

Desc(fn, arity, writes, firstKey, lastKey, keyStep, keyLookup) ==
    [function |-> fn, arity |-> arity, writes |-> writes, firstKey |-> firstKey,
     lastKey |-> lastKey, keyStep |-> keyStep, keyLookup |-> keyLookup]

\* commandList: the commands the model dispatches
commandList ==
    [del |-> Desc("Del", -1, TRUE, 0, -1, 1, FALSE),
     hdel |-> Desc("Hdel", -2, TRUE, 0, 0, 0, FALSE),
     hincrby |-> Desc("Hincrby", 3, TRUE, 0, 0, 0, FALSE),
     hmset |-> Desc("Hmset", -3, TRUE, 0, 0, 0, FALSE),
     hset |-> Desc("Hset", 3, TRUE, 0, 0, 0, FALSE),
     hsetnx |-> Desc("Hsetnx", 3, TRUE, 0, 0, 0, FALSE),
     lpush |-> Desc("Lpush", 2, TRUE, 0, 0, 0, FALSE),
     lpushx |-> Desc("Lpushx", 2, TRUE, 0, 0, 0, FALSE),
     rpush |-> Desc("Rpush", 2, TRUE, 0, 0, 0, FALSE),
     rpushx |-> Desc("Rpushx", 2, TRUE, 0, 0, 0, FALSE),
     lpop |-> Desc("Lpop", 1, TRUE, 0, 0, 0, FALSE),
     rpop |-> Desc("Rpop", 1, TRUE, 0, 0, 0, FALSE),
     rpoplpush |-> Desc("Rpoplpush", 2, TRUE, 0, 1, 0, FALSE),
     lrange |-> Desc("Lrange", 3, FALSE, 0, 0, 0, FALSE),
     set |-> Desc("Set", 2, TRUE, 0, 0, 0, FALSE),
     sadd |-> Desc("Sadd", -2, TRUE, 0, 0, 0, FALSE),
     smove |-> Desc("Smove", 3, TRUE, 0, 1, 0, FALSE),
     spop |-> Desc("Spop", 1, TRUE, 0, 0, 0, FALSE),
     sunion |-> Desc("Sunion", -1, FALSE, 0, -1, 1, FALSE),
     srem |-> Desc("Srem", -2, TRUE, 0, 0, 0, FALSE),
     zadd |-> Desc("Zadd", -3, TRUE, 0, 0, 0, FALSE),
     zincrby |-> Desc("Zincrby", 3, TRUE, 0, 0, 0, FALSE),
     zscore |-> Desc("Zscore", 2, FALSE, 0, 0, 0, FALSE),
     get |-> Desc("Get", 1, FALSE, 0, 0, 0, FALSE),
     type |-> Desc("Type", 1, FALSE, 0, 0, 0, FALSE),
     zrange |-> Desc("Zrange", -3, FALSE, 0, 0, 0, FALSE),
     zrem |-> Desc("Zrem", -2, TRUE, 0, 0, 0, FALSE),
     zrevrange |-> Desc("Zrevrange", -3, FALSE, 0, 0, 0, FALSE),
     zunionstore |-> Desc("Zunionstore", -3, TRUE, 0, 0, 0, TRUE),
     zinterstore |-> Desc("Zinterstore", -3, TRUE, 0, 0, 0, TRUE)]

\* the entry of RESTORE: key, ttl, dump
restoreDesc == Desc("Restore", 3, TRUE, 0, 0, 0, FALSE)

dumpDesc == Desc("Dump", 1, FALSE, 0, 0, 0, FALSE)

migrateDesc == Desc("Migrate", 5, TRUE, 2, 2, 0, FALSE)

commands == [x \in (DOMAIN commandList) \cup {"restore", "dump", "migrate"} |->
                IF x = "restore" THEN restoreDesc
                ELSE IF x = "dump" THEN dumpDesc
                ELSE IF x = "migrate" THEN migrateDesc ELSE commandList[x]]

\* the keys of q that did not occur earlier in q or in seen
RECURSIVE Dedup(_, _)
Dedup(q, seen) ==
    IF q = <<>> THEN <<>>
    ELSE IF \E i \in 1..Len(seen) : seen[i] = Head(q) THEN Dedup(Tail(q), seen)
    ELSE <<Head(q)>> \o Dedup(Tail(q), Append(seen, Head(q)))

\* ZunionInterKeys, zset.go:613-632
ZunionInterKeys(args) ==
    LET nk == ParseInt(args[2])
    IN  IF ~nk.ok \/ Len(args) < 2 + nk.n THEN <<>>
        ELSE <<args[1]>> \o Dedup(SubSeq(args, 3, 2 + nk.n), <<args[1]>>)

\* cmdDesc.getKeys
getKeys(c, args) ==
    IF c.keyLookup THEN ZunionInterKeys(args)
    ELSE IF c.firstKey < 0 \/ Len(args) <= c.firstKey THEN <<>>
    ELSE IF c.keyStep <= 1 THEN SubSeq(args, c.firstKey + 1, Min(c.lastKey + 1, Len(args)))
    ELSE LET last1 == IF c.lastKey = -1 THEN Len(args) - 1 ELSE Min(c.lastKey, Len(args) - 1)
             n == IF last1 < c.firstKey THEN 0 ELSE (last1 - c.firstKey) \div c.keyStep + 1
         IN  Dedup([j \in 1..n |-> args[c.firstKey + 1 + (j - 1) * c.keyStep]], <<>>)

\* cmdDesc.lockKeys on a ring where the mutexes in held are locked: Lock is
\* called key by key; the call on a locked mutex never returns
RECURSIVE lockKeys(_, _, _)
lockKeys(keys, i, held) ==
    IF i > Len(keys) THEN [hung |-> FALSE, held |-> held]
    ELSE IF lockForKey(keys[i]) \in held THEN [hung |-> TRUE, held |-> held]
    ELSE lockKeys(keys, i + 1, held \cup {lockForKey(keys[i])})

\* cmdDesc.unlockKeys
unlockKeys(keys, held) == held \ {lockForKey(keys[i]) : i \in 1..Len(keys)}

\* the arity check of runCommand, protocol.go:106-110: TRUE when it rejects
ArityRejects(c, nargs) ==
    (c.arity < 0 /\ nargs < -c.arity) \/ (c.arity >= 0 /\ nargs > c.arity)

\* command.function(args[1:], wb).  r is the byte rand.Read returns (SPOP),
\* ub the outcome of a Prev() on an invalid iterator (RPOP, RPOPLPUSH).
Engine(fn, s, bad, args, r, ub) ==
    CASE fn = "Del" -> Del(s, bad, args, <<>>)
      [] fn = "Hdel" -> Hdel(s, bad, args, <<>>)
      [] fn = "Hincrby" -> Hincrby(s, bad, args, <<>>)
      [] fn = "Hmset" -> Hmset(s, bad, args, <<>>)
      [] fn = "Hset" -> Hset(s, bad, args, <<>>)
      [] fn = "Hsetnx" -> Hsetnx(s, bad, args, <<>>)
      [] fn = "Lpush" -> Lpush(s, bad, args, <<>>)
      [] fn = "Lpushx" -> Lpushx(s, bad, args, <<>>)
      [] fn = "Rpush" -> Rpush(s, bad, args, <<>>)
      [] fn = "Rpushx" -> Rpushx(s, bad, args, <<>>)
      [] fn = "Lpop" -> Lpop(s, bad, args, ub, <<>>)
      [] fn = "Rpop" -> Rpop(s, bad, args, ub, <<>>)
      [] fn = "Rpoplpush" -> Rpoplpush(s, bad, args, ub, <<>>)
      [] fn = "Set" -> Set(s, bad, args, <<>>)
      [] fn = "Sadd" -> Sadd(s, bad, args, <<>>)
      [] fn = "Smove" -> Smove(s, bad, args, <<>>)
      [] fn = "Spop" -> Spop(s, bad, args, r, <<>>)
      [] fn = "Srem" -> Srem(s, bad, args, <<>>)
      [] fn = "Zadd" -> Zadd(s, bad, args, <<>>)
      [] fn = "Zincrby" -> Zincrby(s, bad, args, <<>>)
      [] fn = "Zrem" -> Zrem(s, bad, args, <<>>)
      [] fn = "Zunionstore" -> Zunionstore(s, bad, args, <<>>)
      [] fn = "Zinterstore" -> Zinterstore(s, bad, args, <<>>)
      [] fn = "Restore" -> Restore(s, bad, args, <<>>)

\* a commit that writes the batch whatever the return value is
CommitAlways(s, res) == Write(s, res.wb)

\* the commit decision of runCommand, protocol.go:119-123: the batch is
\* written only if the return value is not an error
Commit(s, res) == IF IsError(res.reply) THEN s ELSE Write(s, res.wb)

\* runCommand for one writing command run to its end without interleaving:
\* the store, reply and lock ring it leaves.  werr says that DB.Write returns
\* an error: runCommand then writes the error and returns before unlockKeys.
runCommandW(s, held, name, args, res, werr) ==
    LET c == commands[name]
        keys == IF c.writes THEN getKeys(c, args) ELSE <<>>
        lk == lockKeys(keys, 1, held)
    IN  IF ArityRejects(c, Len(args))
        THEN [store |-> s, reply |-> RErr("wrong number of arguments"), locks |-> held,
              hung |-> FALSE, panic |-> FALSE, wb |-> <<>>]
        ELSE IF lk.hung
        THEN [store |-> s, reply |-> RNone, locks |-> lk.held, hung |-> TRUE, panic |-> FALSE,
              wb |-> <<>>]
        ELSE IF res.panic
        THEN [store |-> s, reply |-> RNone, locks |-> lk.held, hung |-> FALSE, panic |-> TRUE,
              wb |-> res.wb]
        ELSE IF werr /\ c.writes /\ ~IsError(res.reply)
        THEN [store |-> s, reply |-> RErr("data write error"), locks |-> lk.held,
              hung |-> FALSE, panic |-> FALSE, wb |-> res.wb]
        ELSE [store |-> Commit(s, res), reply |-> res.reply,
              locks |-> unlockKeys(keys, lk.held), hung |-> FALSE, panic |-> FALSE,
              wb |-> res.wb]

\* runCommand when DB.Write succeeds
runCommand(s, held, name, args, res) == runCommandW(s, held, name, args, res, FALSE)

-----------------------------------------------------------------------------
(* Inputs *)

\* members, fields and list values "x" and "y"
Members == {<<120>>, <<121>>}
\* the ttl argument "0"
Ttl0 == <<48>>

NoCommand ==
    [name |-> "", key |-> <<>>, args |-> <<>>, reply |-> RNone, hung |-> FALSE,
     staged |-> FALSE]

-----------------------------------------------------------------------------
(* The abstract deque that a list command acts on *)

Front(q) == SubSeq(q, 1, Len(q) - 1)

AbstractList(dq, name, args) ==
    LET k == args[1]
    IN  CASE name = "lpush" -> [dq EXCEPT ![k] = <<args[2]>> \o @]
          [] name = "rpush" -> [dq EXCEPT ![k] = Append(@, args[2])]
          [] name = "lpushx" -> [dq EXCEPT ![k] = IF @ = <<>> THEN @ ELSE <<args[2]>> \o @]
          [] name = "rpushx" -> [dq EXCEPT ![k] = IF @ = <<>> THEN @ ELSE Append(@, args[2])]
          [] name = "lpop" -> [dq EXCEPT ![k] = IF @ = <<>> THEN @ ELSE Tail(@)]
          [] name = "rpop" -> [dq EXCEPT ![k] = IF @ = <<>> THEN @ ELSE Front(@)]
          [] name = "rpoplpush" ->
                IF dq[k] = <<>> THEN dq
                ELSE LET v == dq[k][Len(dq[k])]
                         d1 == [dq EXCEPT ![k] = Front(@)]
                     IN  [d1 EXCEPT ![args[2]] = <<v>> \o @]
          [] name = "restore" /\ args[3].t = "list" ->
                [dq EXCEPT ![k] = [i \in 1..Len(args[3].items) |-> args[3].items[i][1]]]
          [] OTHER -> dq

-----------------------------------------------------------------------------
(* One connection: commands are dispatched one after another *)

\* no function is applied on its own
NoCall == [fn |-> ""]
\* no client connection is modelled
NoConn == [st |-> "none"]

InitServer ==
    /\ store = EmptyStore
    /\ locks = {}
    /\ faults = {}
    /\ crashed = FALSE
    /\ steps = 0
    /\ last = NoCommand
    /\ deque = [k \in UserKeys |-> <<>>]
    /\ pc = [c \in {1, 2} |-> "idle"]
    /\ ccmd = [c \in {1, 2} |-> [name |-> "", args |-> <<>>, r |-> 0, ub |-> "invalid"]]
    /\ cpos = [c \in {1, 2} |-> 0]
    /\ cres = [c \in {1, 2} |-> Ret(RNone, <<>>)]
    /\ store0 = EmptyStore

Init ==
    /\ InitServer
    /\ conn = NoConn
    /\ fin = NoCall
    /\ fout = NoCall

\* what one connection observes of runCommand's outcome out
Finish(name, args, out) ==
    /\ store' = out.store
    /\ locks' = out.locks
    /\ crashed' = out.panic
    /\ last' = [name |-> name, key |-> args[1], args |-> args, reply |-> out.reply,
                hung |-> out.hung, staged |-> out.wb # <<>>]
    /\ deque' = IF name \in {"lpush", "rpush", "lpushx", "rpushx", "lpop", "rpop",
                             "rpoplpush", "restore"}
                   /\ args[1] \in UserKeys
                   /\ ~ArityRejects(commands[name], Len(args))
                THEN AbstractList(deque, name, args)
                ELSE deque

\* runCommand(args) on the connection, res being command.function(args[1:], wb)
Dispatch(name, args, res) ==
    /\ ~crashed
    /\ ~last.hung
    /\ steps < MaxSteps
    /\ Finish(name, args, runCommand(store, locks, name, args, res))
    /\ steps' = steps + 1
    /\ faults' = {}
    /\ UNCHANGED concvars
    /\ UNCHANGED funvars

\* runCommand(args) on a connection whose DB.Write fails; its handler returns
DispatchWriteFails(name, args, res) ==
    /\ ~crashed
    /\ ~last.hung
    /\ steps < MaxSteps
    /\ Finish(name, args, runCommandW(store, locks, name, args, res, TRUE))
    /\ steps' = steps + 1
    /\ faults' = {}
    /\ UNCHANGED concvars
    /\ UNCHANGED funvars

-----------------------------------------------------------------------------
(* List commands *)

DoLpush ==
    \E k \in UserKeys, v \in Members :
        Dispatch("lpush", <<k, v>>, Lpush(store, faults, <<k, v>>, <<>>))
DoRpush ==
    \E k \in UserKeys, v \in Members :
        Dispatch("rpush", <<k, v>>, Rpush(store, faults, <<k, v>>, <<>>))
DoLpushx ==
    \E k \in UserKeys, v \in Members :
        Dispatch("lpushx", <<k, v>>, Lpushx(store, faults, <<k, v>>, <<>>))
DoRpushx ==
    \E k \in UserKeys, v \in Members :
        Dispatch("rpushx", <<k, v>>, Rpushx(store, faults, <<k, v>>, <<>>))
DoLpop == \E k \in UserKeys : Dispatch("lpop", <<k>>, Lpop(store, faults, <<k>>, "invalid", <<>>))
\* ub: what Prev() on an invalid iterator does
DoRpop ==
    \E k \in UserKeys, ub \in PrevOnInvalid :
        Dispatch("rpop", <<k>>, Rpop(store, faults, <<k>>, ub, <<>>))
DoRpoplpush ==
    \E k \in UserKeys, ub \in PrevOnInvalid :
        \E d \in UserKeys \ {k} :
            Dispatch("rpoplpush", <<k, d>>, Rpoplpush(store, faults, <<k, d>>, ub, <<>>))

\* the dumps of a list: one and two elements
ListDumps ==
    {[t |-> "list", items |-> <<<<v, <<>>>>>>] : v \in Members}
    \cup {[t |-> "list", items |-> <<<<<<120>>, <<>>>>, <<<<121>>, <<>>>>>>]}

DoRestoreList ==
    \E k \in UserKeys, d \in ListDumps :
        Dispatch("restore", <<k, Ttl0, d>>, Restore(store, faults, <<k, Ttl0, d>>, <<>>))

\* the texts of the range indices
RangeTexts == {<<45, 51>>, <<45, 49>>, <<48>>, <<49>>, <<50>>, <<120>>}

DoLrange ==
    \E k \in UserKeys, a \in RangeTexts, b \in RangeTexts :
        Dispatch("lrange", <<k, a, b>>, Lrange(store, faults, <<k, a, b>>))

\* a set on the key that sorts after every list record
DoSaddLater ==
    Dispatch("sadd", <<LaterKey, <<120>>>>, Sadd(store, faults, <<LaterKey, <<120>>>>, <<>>))

NextL ==
    \/ DoLpush \/ DoRpush \/ DoLpushx \/ DoRpushx
    \/ DoLpop \/ DoRpop \/ DoRpoplpush
    \/ DoRestoreList \/ DoSaddLater \/ DoLrange

SpecL == Init /\ [][NextL]_vars

-----------------------------------------------------------------------------
(* Set and hash commands *)

\* argument lists of members (or fields): one, one repeated, two
MemberLists == {<<<<120>>>>, <<<<121>>>>, <<<<120>>, <<120>>>>, <<<<120>>, <<121>>>>}
\* hash values and increments: "1" and "x", which is no number
Values == {<<49>>, <<120>>}
\* field/value argument lists of HMSET
FieldLists ==
    {<<<<120>>, <<49>>>>, <<<<120>>, <<49>>, <<120>>, <<50>>>>,
     <<<<120>>, <<49>>, <<121>>, <<49>>>>}
\* the byte rand.Read hands to SPOP
RandomBytes == {0, 255}

DoSadd ==
    \E k \in UserKeys, ms \in MemberLists :
        Dispatch("sadd", <<k>> \o ms, Sadd(store, faults, <<k>> \o ms, <<>>))
DoSrem ==
    \E k \in UserKeys, ms \in MemberLists :
        Dispatch("srem", <<k>> \o ms, Srem(store, faults, <<k>> \o ms, <<>>))
DoSpop ==
    \E k \in UserKeys, r \in RandomBytes :
        Dispatch("spop", <<k>>, Spop(store, faults, <<k>>, r, <<>>))
DoSmove ==
    \E k \in UserKeys, m \in Members :
        \E d \in UserKeys \ {k} :
            Dispatch("smove", <<k, d, m>>, Smove(store, faults, <<k, d, m>>, <<>>))
\* SMOVE with the source as its destination
DoSmoveSame ==
    \E k \in UserKeys, m \in Members :
        Dispatch("smove", <<k, k, m>>, Smove(store, faults, <<k, k, m>>, <<>>))
DoHset ==
    \E k \in UserKeys, f \in Members, v \in Values :
        Dispatch("hset", <<k, f, v>>, Hset(store, faults, <<k, f, v>>, <<>>))
DoHsetnx ==
    \E k \in UserKeys, f \in Members, v \in Values :
        Dispatch("hsetnx", <<k, f, v>>, Hsetnx(store, faults, <<k, f, v>>, <<>>))
DoHmset ==
    \E k \in UserKeys, fv \in FieldLists :
        Dispatch("hmset", <<k>> \o fv, Hmset(store, faults, <<k>> \o fv, <<>>))
DoHdel ==
    \E k \in UserKeys, fs \in MemberLists :
        Dispatch("hdel", <<k>> \o fs, Hdel(store, faults, <<k>> \o fs, <<>>))
DoHincrby ==
    \E k \in UserKeys, f \in Members, n \in Values :
        Dispatch("hincrby", <<k, f, n>>, Hincrby(store, faults, <<k, f, n>>, <<>>))

\* the key lists of SUNION: "a", "b", "a b", "b a" and "a a"
UnionLists == {<<<<97>>>>, <<<<98>>>>, <<<<97>>, <<98>>>>, <<<<98>>, <<97>>>>, <<<<97>>, <<97>>>>}
DoSunion == \E ks \in UnionLists : Dispatch("sunion", ks, Sunion(store, ks))

NextSH ==
    \/ DoSadd \/ DoSrem \/ DoSpop \/ DoSmove \/ DoSmoveSame \/ DoSunion
    \/ DoHset \/ DoHsetnx \/ DoHmset \/ DoHdel \/ DoHincrby

SpecSH == Init /\ [][NextSH]_vars

-----------------------------------------------------------------------------
(* Set commands on two sets that were filled before *)

\* what was added to a set, in the order of SADD's arguments: the members are
\* the empty byte string, "x" and "y"
FillLists ==
    {<<>>, <<<<>>>>, <<<<120>>>>, <<<<121>>>>, <<<<>>, <<120>>>>, <<<<>>, <<121>>>>,
     <<<<120>>, <<121>>>>, <<<<>>, <<120>>, <<121>>>>}

\* the store after SADD key ms...
Filled(s, key, ms) ==
    IF ms = <<>> THEN s ELSE Commit(s, Sadd(s, {}, <<key>> \o ms, <<>>))

InitSets ==
    /\ \E ma \in FillLists, mb \in FillLists :
          store = Filled(Filled(EmptyStore, <<97>>, ma), <<98>>, mb)
    /\ locks = {}
    /\ faults = {}
    /\ crashed = FALSE
    /\ steps = 0
    /\ last = NoCommand
    /\ deque = [k \in UserKeys |-> <<>>]
    /\ pc = [c \in {1, 2} |-> "idle"]
    /\ ccmd = [c \in {1, 2} |-> [name |-> "", args |-> <<>>, r |-> 0, ub |-> "invalid"]]
    /\ cpos = [c \in {1, 2} |-> 0]
    /\ cres = [c \in {1, 2} |-> Ret(RNone, <<>>)]
    /\ store0 = EmptyStore
    /\ fin = NoCall
    /\ fout = NoCall
    /\ conn = NoConn

NextSets == DoSunion \/ DoSpop \/ DoSmove \/ DoSmoveSame

SpecSets == InitSets /\ [][NextSets]_vars

-----------------------------------------------------------------------------
(* Sorted-set commands, DEL, SET and RESTORE of a sorted set *)

\* score/member argument lists: "1 x", "2 x", "1 y", "1 x 2 x", "1 x 2 y" and
\* "1 x q y", whose second score is no number
ScoreLists ==
    {<<<<49>>, <<120>>>>, <<<<50>>, <<120>>>>, <<<<49>>, <<121>>>>,
     <<<<49>>, <<120>>, <<50>>, <<120>>>>, <<<<49>>, <<120>>, <<50>>, <<121>>>>,
     <<<<49>>, <<120>>, <<113>>, <<121>>>>}
\* what follows the destination of ZUNIONSTORE and ZINTERSTORE: "1 a", "2 a b",
\* "2 a b WEIGHTS 2 1", "2 a b AGGREGATE MAX" and "1 a AGGREGATE", a syntax error
CombineLists ==
    {<<<<49>>, <<97>>>>, <<<<50>>, <<97>>, <<98>>>>,
     <<<<50>>, <<97>>, <<98>>, <<87, 69, 73, 71, 72, 84, 83>>, <<50>>, <<49>>>>,
     <<<<50>>, <<97>>, <<98>>, <<65, 71, 71, 82, 69, 71, 65, 84, 69>>, <<77, 65, 88>>>>,
     <<<<49>>, <<97>>, <<65, 71, 71, 82, 69, 71, 65, 84, 69>>>>}
\* the dumps of a sorted set: x:1, then x:1 y:2, then x:1 x:2
ZsetDumps ==
    {[t |-> "zset", items |-> <<<<<<120>>, Float64bits(1)>>>>],
     [t |-> "zset", items |-> <<<<<<120>>, Float64bits(1)>>, <<<<121>>, Float64bits(2)>>>>],
     [t |-> "zset", items |-> <<<<<<120>>, Float64bits(1)>>, <<<<120>>, Float64bits(2)>>>>]}
KeyLists == {<<<<97>>>>, <<<<98>>>>, <<<<97>>, <<98>>>>}

DoZadd ==
    \E k \in UserKeys, sm \in ScoreLists :
        Dispatch("zadd", <<k>> \o sm, Zadd(store, faults, <<k>> \o sm, <<>>))
DoZincrby ==
    \E k \in UserKeys, n \in Values, m \in Members :
        Dispatch("zincrby", <<k, n, m>>, Zincrby(store, faults, <<k, n, m>>, <<>>))
DoZrem ==
    \E k \in UserKeys, ms \in MemberLists :
        Dispatch("zrem", <<k>> \o ms, Zrem(store, faults, <<k>> \o ms, <<>>))
DoZunionstore ==
    \E d \in UserKeys, ks \in CombineLists :
        Dispatch("zunionstore", <<d>> \o ks, Zunionstore(store, faults, <<d>> \o ks, <<>>))
DoZinterstore ==
    \E d \in UserKeys, ks \in CombineLists :
        Dispatch("zinterstore", <<d>> \o ks, Zinterstore(store, faults, <<d>> \o ks, <<>>))
DoDel == \E ks \in KeyLists : Dispatch("del", ks, Del(store, faults, ks, <<>>))
DoSet ==
    \E k \in UserKeys :
        Dispatch("set", <<k, <<120>>>>, Set(store, faults, <<k, <<120>>>>, <<>>))
DoRestoreZset ==
    \E k \in UserKeys, d \in ZsetDumps :
        Dispatch("restore", <<k, Ttl0, d>>, Restore(store, faults, <<k, Ttl0, d>>, <<>>))

\* start and end, and "0 -1 WITHSCORES"
RangeLists ==
    {<<a, b>> : a \in RangeTexts, b \in RangeTexts}
    \cup {<<<<48>>, <<45, 49>>, <<87, 73, 84, 72, 83, 67, 79, 82, 69, 83>>>>}

DoZrange ==
    \E k \in UserKeys, r \in RangeLists :
        Dispatch("zrange", <<k>> \o r, Zrange(store, faults, <<k>> \o r))
DoZrevrange ==
    \E k \in UserKeys, r \in RangeLists :
        Dispatch("zrevrange", <<k>> \o r, Zrevrange(store, faults, <<k>> \o r))

DoGet == \E k \in UserKeys : Dispatch("get", <<k>>, Get_(store, faults, <<k>>))
DoType == \E k \in UserKeys : Dispatch("type", <<k>>, Type(store, faults, <<k>>))
\* ZSCORE with one argument and with three, ZADD with one and with two
DoZscoreArity ==
    \E k \in UserKeys : \E args \in {<<k>>, <<k, <<120>>, <<120>>>>} :
        Dispatch("zscore", args, Zscore(store, faults, args))
DoZaddArity ==
    \E k \in UserKeys : \E args \in {<<k>>, <<k, <<49>>>>} :
        Dispatch("zadd", args, Zadd(store, faults, args, <<>>))
DoZscore ==
    \E k \in UserKeys, m \in Members :
        Dispatch("zscore", <<k, m>>, Zscore(store, faults, <<k, m>>))

NextZ ==
    \/ DoZadd \/ DoZincrby \/ DoZrem \/ DoZunionstore \/ DoZinterstore
    \/ DoDel \/ DoSet \/ DoRestoreZset \/ DoZrange \/ DoZrevrange \/ DoZscore
    \/ DoGet \/ DoType \/ DoZscoreArity \/ DoZaddArity

SpecZ == Init /\ [][NextZ]_vars

-----------------------------------------------------------------------------
(* Every writing command, and reads that fail *)

\* the records whose read can fail: both metadata records and the records of
\* member (or field) "y" of key "a" as a set, a hash and a sorted set
FaultKeys ==
    {metaKey(<<97>>), metaKey(<<98>>)}
    \cup {NewKeyBufferWithSuffix(t, <<97>>, <<121>>).buf : t \in {SetKey, HashKey, ZSetKey}}

\* DB.Get on record k returns an error from now until the next command ends
ReadFault ==
    /\ ~crashed
    /\ ~last.hung
    /\ faults = {}
    /\ steps < MaxSteps
    /\ \E k \in FaultKeys : faults' = {k}
    /\ steps' = steps + 1
    /\ UNCHANGED <<store, locks, crashed, last, deque>>
    /\ UNCHANGED concvars
    /\ UNCHANGED funvars

\* a store that holds on key a the set {x, y}, the hash x:1 y:1 or the sorted
\* set x:1 y:2
FilledStores ==
    {Commit(EmptyStore, Sadd(EmptyStore, {}, <<<<97>>, <<120>>, <<121>>>>, <<>>)),
     Commit(EmptyStore, Hmset(EmptyStore, {}, <<<<97>>, <<120>>, <<49>>, <<121>>, <<49>>>>, <<>>)),
     Commit(EmptyStore, Zadd(EmptyStore, {}, <<<<97>>, <<49>>, <<120>>, <<50>>, <<121>>>>, <<>>))}

\* the next command runs on a filled store while the read of one record fails
InitFault ==
    /\ store \in FilledStores
    /\ faults \in {{k} : k \in FaultKeys}
    /\ locks = {}
    /\ crashed = FALSE
    /\ steps = 0
    /\ last = NoCommand
    /\ deque = [k \in UserKeys |-> <<>>]
    /\ pc = [c \in {1, 2} |-> "idle"]
    /\ ccmd = [c \in {1, 2} |-> [name |-> "", args |-> <<>>, r |-> 0, ub |-> "invalid"]]
    /\ cpos = [c \in {1, 2} |-> 0]
    /\ cres = [c \in {1, 2} |-> Ret(RNone, <<>>)]
    /\ store0 = EmptyStore
    /\ fin = NoCall
    /\ fout = NoCall
    /\ conn = NoConn

\* SADD and ZREM whose batch the store fails to write
DoSaddWriteFails ==
    \E k \in UserKeys, ms \in MemberLists :
        DispatchWriteFails("sadd", <<k>> \o ms, Sadd(store, faults, <<k>> \o ms, <<>>))
DoZremWriteFails ==
    \E k \in UserKeys, ms \in MemberLists :
        DispatchWriteFails("zrem", <<k>> \o ms, Zrem(store, faults, <<k>> \o ms, <<>>))

NextFault ==
    \/ DoSadd \/ DoSrem \/ DoHdel \/ DoZadd \/ DoZrem
    \/ DoSaddWriteFails \/ DoZremWriteFails

SpecFault == InitFault /\ [][NextFault]_vars

\* the dumps of a string, a hash and a set: "x"; x:1; x:1 y:1; {x}; {x, y}
MoreDumps ==
    {[t |-> "string", items |-> <<<<<<120>>, <<>>>>>>],
     [t |-> "hash", items |-> <<<<<<120>>, <<49>>>>>>],
     [t |-> "hash", items |-> <<<<<<120>>, <<49>>>>, <<<<121>>, <<49>>>>>>],
     [t |-> "set", items |-> <<<<<<120>>, <<>>>>>>],
     [t |-> "set", items |-> <<<<<<120>>, <<>>>>, <<<<121>>, <<>>>>>>]}

DoRestoreMore ==
    \E k \in UserKeys, d \in MoreDumps :
        Dispatch("restore", <<k, Ttl0, d>>, Restore(store, faults, <<k, Ttl0, d>>, <<>>))
DoDump ==
    \E k \in UserKeys, ub \in PrevOnInvalid :
        Dispatch("dump", <<k>>, Dump(store, faults, <<k>>, ub))

\* MIGRATE host 6379 key 0 timeout, the timeout "1" or "x", which is no number
DoMigrate ==
    \E h \in Hosts, k \in UserKeys, ub \in PrevOnInvalid, tm \in Values :
        Dispatch("migrate", <<h, <<54, 51, 55, 57>>, k, <<48>>, tm>>,
                 Migrate(store, faults, <<h, <<54, 51, 55, 57>>, k, <<48>>, tm>>, ub, <<>>))

NextDump == DoRestoreList \/ DoRestoreZset \/ DoRestoreMore \/ DoDump \/ DoMigrate

SpecDump == Init /\ [][NextDump]_vars

\* what key k with member m may hold before a scan: nothing, the set {m}, the
\* hash m:1 or the sorted set m:1
Holding(s, k, m, what) ==
    CASE what = "set" -> Commit(s, Sadd(s, {}, <<k, m>>, <<>>))
      [] what = "hash" -> Commit(s, Hset(s, {}, <<k, m, <<49>>>>, <<>>))
      [] what = "zset" -> Commit(s, Zadd(s, {}, <<k, <<49>>, m>>, <<>>))
      [] OTHER -> s

\* keys a, b and z each hold an aggregate of their own
InitScan ==
    /\ \E wa \in {"none", "set", "hash", "zset"}, wb \in {"none", "set", "hash", "zset"},
          wz \in {"none", "zset"} :
          store = Holding(Holding(Holding(EmptyStore, <<97>>, <<120>>, wa),
                                  <<98>>, <<121>>, wb), LaterKey, <<120>>, wz)
    /\ locks = {}
    /\ faults = {}
    /\ crashed = FALSE
    /\ steps = 0
    /\ last = NoCommand
    /\ deque = [k \in UserKeys |-> <<>>]
    /\ pc = [c \in {1, 2} |-> "idle"]
    /\ ccmd = [c \in {1, 2} |-> [name |-> "", args |-> <<>>, r |-> 0, ub |-> "invalid"]]
    /\ cpos = [c \in {1, 2} |-> 0]
    /\ cres = [c \in {1, 2} |-> Ret(RNone, <<>>)]
    /\ store0 = EmptyStore
    /\ fin = NoCall
    /\ fout = NoCall
    /\ conn = NoConn

NextScan == DoDump \/ DoDel

SpecScan == InitScan /\ [][NextScan]_vars

Next == NextL \/ NextSH \/ NextZ \/ NextDump \/ ReadFault

Spec == Init /\ [][Next]_vars

-----------------------------------------------------------------------------
(* Two connections: each runs one command, their steps interleave *)

Clients == {1, 2}

Cmd(name, args) == [name |-> name, args |-> args, r |-> 0, ub |-> "invalid"]

\* the commands the two connections choose from
ConcCommands ==
    {Cmd("sadd", <<k, <<121>>>>) : k \in UserKeys}
    \cup {Cmd("srem", <<k, <<120>>>>) : k \in UserKeys}
    \cup {Cmd("del", <<k>>) : k \in UserKeys}
    \cup {Cmd("smove", <<<<97>>, <<98>>, <<120>>>>), Cmd("smove", <<<<98>>, <<97>>, <<120>>>>)}
    \cup {Cmd("rpoplpush", <<<<97>>, <<98>>>>), Cmd("rpoplpush", <<<<98>>, <<97>>>>)}
    \cup {Cmd("rpush", <<k, <<121>>>>) : k \in UserKeys}
    \cup {Cmd("zunionstore", <<<<97>>, <<49>>, <<98>>>>)}

\* the keys runCommand locks for command cmd
KeysOf(cmd) == getKeys(commands[cmd.name], cmd.args)

\* both connections have read a command
StartPair ==
    /\ ~crashed
    /\ \A c \in Clients : pc[c] = "idle"
    /\ \E c1 \in ConcCommands, c2 \in ConcCommands : ccmd' = <<c1, c2>>
    /\ pc' = [c \in Clients |-> "lock"]
    /\ cpos' = [c \in Clients |-> 1]
    /\ store0' = store
    /\ UNCHANGED <<store, locks, faults, crashed, steps, last, deque, cres>>
    /\ UNCHANGED funvars

\* lockKeys: KeyMutex.Lock on the next key; it returns once the mutex is free
LockStep(c) ==
    /\ ~crashed
    /\ pc[c] = "lock"
    /\ cpos[c] <= Len(KeysOf(ccmd[c]))
    /\ lockForKey(KeysOf(ccmd[c])[cpos[c]]) \notin locks
    /\ locks' = locks \cup {lockForKey(KeysOf(ccmd[c])[cpos[c]])}
    /\ cpos' = [cpos EXCEPT ![c] = @ + 1]
    /\ UNCHANGED <<store, faults, crashed, steps, last, deque, pc, ccmd, cres, store0>>
    /\ UNCHANGED funvars

\* command.function(args[1:], wb): the engine reads the store and stages its batch
Run(c) ==
    /\ ~crashed
    /\ pc[c] = "lock"
    /\ cpos[c] > Len(KeysOf(ccmd[c]))
    /\ cres' = [cres EXCEPT ![c] = Engine(commands[ccmd[c].name].function, store, {},
                                          ccmd[c].args, ccmd[c].r, ccmd[c].ub)]
    /\ crashed' = cres'[c].panic
    /\ pc' = [pc EXCEPT ![c] = "commit"]
    /\ UNCHANGED <<store, locks, faults, steps, last, deque, ccmd, cpos, store0>>
    /\ UNCHANGED funvars

\* DB.Write unless the reply is an error, unlockKeys, writeReply
CommitStep(c) ==
    /\ ~crashed
    /\ pc[c] = "commit"
    /\ store' = Commit(store, cres[c])
    /\ locks' = unlockKeys(KeysOf(ccmd[c]), locks)
    /\ pc' = [pc EXCEPT ![c] = "done"]
    /\ UNCHANGED <<faults, crashed, steps, last, deque, ccmd, cpos, cres, store0>>
    /\ UNCHANGED funvars

\* commands on one connection before the two start
Setup ==
    /\ \A c \in Clients : pc[c] = "idle"
    /\ (DoSadd \/ DoRpush)

NextConc ==
    \/ Setup
    \/ StartPair
    \/ \E c \in Clients : LockStep(c)
    \/ \E c \in Clients : Run(c)
    \/ \E c \in Clients : CommitStep(c)

SpecConc == Init /\ [][NextConc]_vars

-----------------------------------------------------------------------------
(* Functions applied on their own *)

\* user keys, with and without trailing 0xff bytes
RevKeys == {<<>>, <<97>>, <<255>>, <<97, 255>>, <<255, 255>>}
RevTags == {ListKey, ZScoreKey}
\* record keys: the prefix of a user key alone or followed by a byte
RevRecords ==
    {NewKeyBuffer(t, k).buf \o x : t \in RevTags, k \in RevKeys, x \in {<<>>, <<0>>, <<255>>}}
\* the key sets of the stores the backward seek runs on: one or two records
RevStores ==
    {{x} : x \in RevRecords} \cup {{x, y} : x \in RevRecords, y \in RevRecords}

InitRev ==
    /\ InitServer
    /\ conn = NoConn
    /\ fin \in {[fn |-> "ReverseIterKey", tag |-> t, key |-> k, keys |-> ks] :
                   t \in RevTags, k \in RevKeys, ks \in RevStores}
    /\ fout = NoCall

\* iterKey.ReverseIterKey(); it.Seek(iterKey.Key()); it.Prev() as lpop, zrange
\* and srand do it; ub is what Prev() does on an iterator that is not valid
SeekPrev ==
    /\ fin.fn = "ReverseIterKey"
    /\ fout = NoCall
    /\ \E ub \in PrevOnInvalid :
          LET b == ReverseIterKey(NewKeyBuffer(fin.tag, fin.key)).buf
              s == [x \in fin.keys |-> <<>>]
              sought == Seek(s, b)
          IN  fout' = [fn |-> "ReverseIterKey", b |-> b,
                       panic |-> sought = NoKey /\ ub = "abort",
                       at |-> IF sought = NoKey THEN NoKey ELSE IterPrev(s, sought)]
    /\ UNCHANGED <<store, locks, faults, crashed, steps, last, deque, fin, conn>>
    /\ UNCHANGED concvars

SpecRev == InitRev /\ [][SeekPrev]_vars

InitPrefix ==
    /\ InitServer
    /\ conn = NoConn
    /\ fin \in {[fn |-> "IsPrefixOf", tag |-> t, key |-> k, reverse |-> r, k |-> x] :
                   t \in RevTags, k \in RevKeys, r \in BOOLEAN, x \in RevRecords}
    /\ fout = NoCall

\* iterKey.IsPrefixOf(k) on a key buffer of tag and key, after
\* iterKey.ReverseIterKey() when reverse is set
PrefixTest ==
    /\ fin.fn = "IsPrefixOf"
    /\ fout = NoCall
    /\ fout' = [fn |-> "IsPrefixOf",
                ok |-> IF fin.reverse
                       THEN IsPrefixOf(ReverseIterKey(NewKeyBuffer(fin.tag, fin.key)), fin.k)
                       ELSE IsPrefixOf(NewKeyBuffer(fin.tag, fin.key), fin.k)]
    /\ UNCHANGED <<store, locks, faults, crashed, steps, last, deque, fin, conn>>
    /\ UNCHANGED concvars

SpecPrefix == InitPrefix /\ [][PrefixTest]_vars

\* bit patterns of finite scores of both signs: zeros, subnormals, numbers
\* around 1 and 2, and the greatest magnitudes
FloatBits ==
    {<<b1, b2, 0, 0, 0, 0, 0, b8>> :
        b1 \in {0, 63, 64, 127, 128, 191, 192, 255}, b2 \in {0, 239, 240}, b8 \in {0, 1}}
    \ {<<b1, 240, 0, 0, 0, 0, 0, b8>> : b1 \in {127, 255}, b8 \in {0, 1}}

InitFloat ==
    /\ InitServer
    /\ conn = NoConn
    /\ fin \in {[fn |-> "sortable", a |-> a, b |-> b] : a \in FloatBits, b \in FloatBits}
    /\ fout = NoCall

\* setZScoreKeyScore writes both scores, parseZScoreKey reads the first back
SortableRoundTrip ==
    /\ fin.fn = "sortable"
    /\ fout = NoCall
    /\ fout' = [fn |-> "sortable", ea |-> writeByteSortableFloat(fin.a),
                eb |-> writeByteSortableFloat(fin.b),
                da |-> readByteSortableFloat(writeByteSortableFloat(fin.a))]
    /\ UNCHANGED <<store, locks, faults, crashed, steps, last, deque, fin, conn>>
    /\ UNCHANGED concvars

SpecFloat == InitFloat /\ [][SortableRoundTrip]_vars

-----------------------------------------------------------------------------
(* Lists: what the records say *)

\* the ListKey records under key, ascending
ListRecordKeys(s, key) == PrefixScan(s, NewKeyBuffer(ListKey, key))

\* their values, left to right
ListValues(s, key) ==
    LET ks == ListRecordKeys(s, key) IN [i \in 1..Len(ks) |-> s[ks[i]]]

\* their sequence numbers
ListSeqs(s, key) ==
    LET ks == ListRecordKeys(s, key)
    IN  {SeqOf(Drop(ks[i], Len(key) + keyPrefixSize)) : i \in 1..Len(ks)}

\* the metadata record of key says it is a list
IsList(s, key) ==
    LET res == Get(s, {}, metaKey(key))
    IN  res.found /\ Len(res.v) >= 22 /\ res.v[1] = ListLengthValue

\* C8: walking the ListKey records of K in ascending key order yields the
\* abstract deque subjected to the same LPUSH, RPUSH, LPUSHX, RPUSHX, LPOP,
\* RPOP and RPOPLPUSH commands, and LLEN K is its length.
C8_ListIsDeque ==
    ~crashed =>
        \A k \in UserKeys :
            /\ ListValues(store, k) = deque[k]
            /\ llen(store, {}, metaKey(k)).length = Len(deque[k])

\* C9: on a non-empty list LPOP returns and removes the leftmost element and
\* RPOP the rightmost, whatever else the store holds; nil only when the list
\* is empty.
C9_PopTakesEnd ==
    [][last'.name \in {"lpop", "rpop"} =>
          LET k == last'.key
              vs == ListValues(store, k)
          IN  IF vs = <<>> THEN last'.reply = RNil /\ ~crashed'
              ELSE /\ ~crashed'
                   /\ last'.reply = RBulk(IF last'.name = "lpop" THEN Head(vs) ELSE vs[Len(vs)])
                   /\ ListValues(store', k) = (IF last'.name = "lpop" THEN Tail(vs) ELSE Front(vs))]_vars

\* C10: a list whose LooseSeq flag is clear has rightSeq - leftSeq - 1 = count
\* and its element records occupy exactly leftSeq+1 .. rightSeq-1.
C10_SeqWindow ==
    \A k \in UserKeys :
        LET l == llen(store, {}, metaKey(k))
        IN  (IsList(store, k) /\ l.flags % 2 # listLooseSeq) =>
                /\ l.right - l.left - 1 = l.length
                /\ ListSeqs(store, k) = (l.left + 1)..(l.right - 1)

\* LLEN of key is the number of its element records
LlenMatches(s, key) == llen(s, {}, metaKey(key)).length = Len(ListValues(s, key))

\* C26: RPOPLPUSH src dst takes the rightmost element of src, makes it the
\* leftmost element of dst and replies with it; no element is lost or added
\* and both lengths match the records; on an empty src it replies nil and
\* changes nothing.
C26_RpoplpushMoves ==
    [][(steps' = steps + 1 /\ faults = {} /\ faults' = {} /\ last'.name = "rpoplpush"
        /\ Len(last'.args) = 2 /\ last'.args[1] # last'.args[2])
       => LET src == last'.args[1]
              dst == last'.args[2]
              vs == ListValues(store, src)
              vd == ListValues(store, dst)
          IN  IF vs = <<>>
              THEN ~crashed' /\ last'.reply = RNil /\ store' = store
              ELSE /\ ~crashed'
                   /\ last'.reply = RBulk(vs[Len(vs)])
                   /\ ListValues(store', src) = Front(vs)
                   /\ ListValues(store', dst) = <<vs[Len(vs)]>> \o vd
                   /\ LlenMatches(store', src) /\ LlenMatches(store', dst)]_vars

-----------------------------------------------------------------------------
(* What the records of a key say *)

\* the records with tag t under key
RecordsOf(s, t, key) == {x \in DOMAIN s : HasPrefix(x, NewKeyBuffer(t, key).buf)}

\* the tag of the element records that go with a metadata value tag
ElementTag(valueTag) ==
    CASE valueTag = StringLengthValue -> StringKey
      [] valueTag = HashLengthValue -> HashKey
      [] valueTag = ListLengthValue -> ListKey
      [] valueTag = SetCardValue -> SetKey
      [] valueTag = ZCardValue -> ZSetKey
      [] OTHER -> MetaKey

ElementTags == {StringKey, HashKey, ListKey, SetKey, ZSetKey}

\* C3: when the engine returns an error value the batch is not committed: the
\* store after the command is the store before it.
C3_ErrorLeavesStore == [][IsError(last'.reply) => store' = store]_vars

\* a command returned an error after it had staged operations
C3_Witness == IsError(last.reply) /\ last.staged /\ last.name \in DOMAIN commands

\* C4: a key has a metadata record iff it has at least one element record, and
\* the metadata tag is the tag of those records.
C4_MetaIffElements ==
    \A k \in UserKeys :
        LET res == Get(store, {}, metaKey(k))
        IN  IF res.found
            THEN /\ res.v # <<>>
                 /\ RecordsOf(store, ElementTag(res.v[1]), k) # {}
                 /\ \A t \in ElementTags \ {ElementTag(res.v[1])} : RecordsOf(store, t, k) = {}
            ELSE \A t \in ElementTags : RecordsOf(store, t, k) = {}

\* C5: every member of a sorted set has exactly one ZSetKey record and exactly
\* one ZScoreKey record, carrying the same score, and no ZScoreKey record is
\* left without its ZSetKey record.
C5_ScoreIndexMatches ==
    \A k \in UserKeys :
        LET zs == RecordsOf(store, ZSetKey, k)
            sc == RecordsOf(store, ZScoreKey, k)
            at == keyPrefixSize + Len(k)
        IN  /\ \A x \in zs :
                /\ Len(store[x]) = 8
                /\ {y \in sc : Drop(y, at + 8) = Drop(x, at)}
                       = {NewKeyBufferWithSuffix(ZScoreKey, k,
                              writeByteSortableFloat(store[x]) \o Drop(x, at)).buf}
            /\ \A y \in sc : NewKeyBufferWithSuffix(ZSetKey, k, Drop(y, at + 8)).buf \in zs

\* C6: the cardinality in a sorted set's metadata is the number of its ZSetKey
\* records.
C6_ZcardIsRecords ==
    \A k \in UserKeys :
        LET card == zcard(store, {}, metaKey(k))
        IN  card.e = "" => card.n = Cardinality(RecordsOf(store, ZSetKey, k))

\* C7: SCARD and HLEN are the number of SetKey and HashKey records of the key.
C7_CountIsRecords ==
    \A k \in UserKeys :
        LET card == scard(store, {}, metaKey(k))
            length == hlen(store, {}, metaKey(k))
        IN  /\ card.e = "" => card.n = Cardinality(RecordsOf(store, SetKey, k))
            /\ length.e = "" => length.n = Cardinality(RecordsOf(store, HashKey, k))

-----------------------------------------------------------------------------
(* Two connections: what they may observe *)

\* a command run alone on store s: the store it leaves and its reply
Alone(s, cmd) ==
    LET res == Engine(commands[cmd.name].function, s, {}, cmd.args, cmd.r, cmd.ub)
    IN  [store |-> IF res.panic THEN s ELSE Commit(s, res), reply |-> res.reply]

\* first then second, one after the other from store s: the final store and the
\* reply of each
Serial(s, first, second) ==
    LET a == Alone(s, first)
        b == Alone(a.store, second)
    IN  [store |-> b.store, first |-> a.reply, second |-> b.reply]

\* the connection waits for a mutex that is locked
Blocked(c) ==
    /\ pc[c] = "lock"
    /\ cpos[c] <= Len(KeysOf(ccmd[c]))
    /\ lockForKey(KeysOf(ccmd[c])[cpos[c]]) \in locks

\* C1: two writing commands run concurrently through dispatch leave the store
\* and the replies that one of the two serial orders leaves.
C1_Serializable ==
    (~crashed /\ \A c \in Clients : pc[c] = "done") =>
        \/ [store |-> store, first |-> cres[1].reply, second |-> cres[2].reply]
               = Serial(store0, ccmd[1], ccmd[2])
        \/ [store |-> store, first |-> cres[2].reply, second |-> cres[1].reply]
               = Serial(store0, ccmd[2], ccmd[1])

\* C2: two commands that name the same two keys in opposite orders never
\* deadlock: the connections are never both waiting for a mutex.
C2_NoDeadlock == ~(Blocked(1) /\ Blocked(2))

\* the user key a record key belongs to
KeyOfRecord(x) ==
    IF x[1] = MetaKey THEN Tail(x)
    ELSE SubSeq(x, keyPrefixSize + 1, keyPrefixSize + Uint32(SubSeq(x, 2, 5)))

\* the user keys whose records the batch wb puts or deletes
MutatedKeys(wb) == {KeyOfRecord(wb[i][2]) : i \in 1..Len(wb)}

\* the mutexes connection c has locked once lockKeys has returned
LockedBy(c) == {lockForKey(KeysOf(ccmd[c])[i]) : i \in 1..Len(KeysOf(ccmd[c]))}

\* C34: when the engine of a writing command has staged its batch and the
\* batch is not yet committed, the connection holds the lock of every user key
\* the batch mutates.
C34_MutatedKeysLocked ==
    \A c \in Clients :
        (pc[c] = "commit" /\ ~crashed) =>
            \A k \in MutatedKeys(cres[c].wb) : lockForKey(k) \in LockedBy(c)

\* the members (fields) that key holds under tag in store s
MembersUnder(s, tag, key) ==
    {Drop(x, keyPrefixSize + Len(key)) : x \in RecordsOf(s, tag, key)}

\* C37: DEL K... and DUMP K touch only records of the keys they name: the
\* records of every other key stay as they were and none of their members is
\* in the dump.
C37_OnlyOwnRecords ==
    [][(steps' = steps + 1 /\ faults' = {} /\ last'.name \in {"del", "dump"} /\ ~crashed')
       => /\ \A x \in DOMAIN store :
                (\A i \in 1..Len(last'.args) : KeyOfRecord(x) # last'.args[i])
                    => (x \in DOMAIN store' /\ store'[x] = store[x])
          /\ (last'.name = "dump" /\ last'.reply.t = "bulk")
                => \A i \in 1..Len(last'.reply.b.items) :
                      last'.reply.b.items[i][1]
                          \in MembersUnder(store, ElementTag(store[metaKey(last'.args[1])][1]),
                                           last'.args[1])]_vars

\* C38: IsPrefixOf(k) is true exactly when k begins with tag | len32(K) | K,
\* on a plain key buffer and on one that ReverseIterKey was applied to.
C38_IsPrefixOfExact ==
    fout.fn = "IsPrefixOf" =>
        (fout.ok <=> HasPrefix(fin.k, NewKeyBuffer(fin.tag, fin.key).buf))

-----------------------------------------------------------------------------
(* Range reads *)

\* the index idx of a sequence of n elements, negative ones counted from the end
FromEnd(idx, n) == IF idx < 0 THEN idx + n ELSE idx

\* the elements of q at the indices start..end (0-based), negative indices
\* counted from the end and both clamped to the bounds of q
Slice(q, start, end) ==
    LET a == IF FromEnd(start, Len(q)) < 0 THEN 0 ELSE FromEnd(start, Len(q))
        b == IF FromEnd(end, Len(q)) > Len(q) - 1 THEN Len(q) - 1 ELSE FromEnd(end, Len(q))
    IN  IF a > b THEN <<>> ELSE SubSeq(q, a + 1, b + 1)

\* C11: LRANGE K start end returns exactly the elements of list K at the
\* indices start..end, left to right, negative indices counting from the end
\* and the indices clamped to the list; never a value of another record.
C11_LrangeSlice ==
    (last.name = "lrange" /\ ~crashed) =>
        last.reply = RMulti(Slice(ListValues(store, last.key),
                                  ParseInt(last.args[2]).n, ParseInt(last.args[3]).n))

\* the members of sorted set key with their scores, from its ZSetKey records
ZsetPairs(s, key) ==
    {[member |-> Drop(x, keyPrefixSize + Len(key)), score |-> btof(s[x])] :
        x \in RecordsOf(s, ZSetKey, key)}

\* p comes before q in ascending (score, member bytes) order
PairLeq(p, q) == p.score < q.score \/ (p.score = q.score /\ LexLeq(p.member, q.member))

\* the members of the pairs in ps in ascending (score, member bytes) order
RECURSIVE ByScore(_)
ByScore(ps) ==
    IF ps = {} THEN <<>>
    ELSE LET lo == CHOOSE p \in ps : \A q \in ps : PairLeq(p, q)
         IN  <<lo.member>> \o ByScore(ps \ {lo})

Reverse(q) == [i \in 1..Len(q) |-> q[Len(q) + 1 - i]]

\* C12: ZRANGE K start end returns the members of K in ascending (score,
\* member) order restricted to the indices start..end, negative indices counted
\* from the end and end clamped to card-1, and never a member of another key.
C12_ZrangeSlice ==
    (last.name = "zrange" /\ Len(last.args) = 3 /\ ~crashed
     /\ zcard(store, {}, metaKey(last.key)).e = "") =>
        last.reply = RMulti(Slice(ByScore(ZsetPairs(store, last.key)),
                                  ParseInt(last.args[2]).n, ParseInt(last.args[3]).n))

\* C13: ZREVRANGE K s e is the s..e slice of the reverse of what ZRANGE K 0 -1
\* returns, whatever else the store holds.
C13_ZrevrangeIsReverse ==
    (last.name = "zrevrange" /\ Len(last.args) = 3 /\ ~crashed
     /\ zcard(store, {}, metaKey(last.key)).e = "") =>
        last.reply = RMulti(Slice(Reverse(Zrange(store, {}, <<last.key, <<48>>, <<45, 49>>>>).reply.m),
                                  ParseInt(last.args[2]).n, ParseInt(last.args[3]).n))

\* the members named by ZADD's arguments, and the score last given for m
ZaddMembers(args) == {args[i] : i \in {j \in 2..Len(args) : j % 2 = 1}}
LastScore(args, m) ==
    LET at == {j \in 2..Len(args) : j % 2 = 1 /\ args[j] = m}
        j == CHOOSE x \in at : \A y \in at : y <= x
    IN  args[j - 1]

\* C16: a ZADD that succeeds replies with the number of members named that
\* were not in the sorted set before it; afterwards ZSCORE of each member
\* named returns the score last given for it.
C16_ZaddCountsNew ==
    [][(steps' = steps + 1 /\ faults' = {} /\ last'.name = "zadd" /\ last'.reply.t = "int"
        /\ ~crashed')
       => /\ last'.reply.n =
                Cardinality({m \in ZaddMembers(last'.args) :
                    NewKeyBufferWithSuffix(ZSetKey, last'.key, m).buf \notin DOMAIN store})
          /\ \A m \in ZaddMembers(last'.args) :
                Zscore(store', {}, <<last'.key, m>>).reply = RBulk(LastScore(last'.args, m))]_vars

-----------------------------------------------------------------------------
(* The connection handler, protocol.go:41-320 *)

\* a chunk handed to the write channel: the text s, then the bytes b, then
\* the text z
Chunk(s, b, z) == [s |-> s, b |-> b, z |-> z]
Text(s) == Chunk(s, <<>>, "")
Raw(b) == Chunk("", b, "")

writeError(msg) == <<Text("-ERR " \o msg \o "\r\n")>>
writeProtocolError(msg) == writeError("Protocol error: " \o msg)
writeNil == <<Text("$-1\r\n")>>
writeInt(n) == <<Text(":" \o ToString(n) \o "\r\n")>>
writeString(s) == <<Text("+" \o s \o "\r\n")>>
writeMultibulkLength(n) == <<Text("*" \o ToString(n) \o "\r\n")>>

\* writeBulk(w, b): the nil []byte gets "$-1" and, with no return after it,
\* the frame of the empty bulk as well
writeBulk(isnil, b) ==
    (IF isnil THEN <<Text("$-1\r\n")>> ELSE <<>>)
    \o <<Text("$" \o ToString(Len(b)) \o "\r\n"), Raw(b), Text("\r\n")>>

\* the items of a multi-bulk reply or of a stream, each a []byte
RECURSIVE writeItems(_)
writeItems(m) == IF m = <<>> THEN <<>> ELSE writeBulk(FALSE, Head(m)) \o writeItems(Tail(m))

\* writeReply(w, reply): the chunks it sends
writeReply(reply) ==
    CASE reply.t = "nil" -> writeNil
      [] reply.t = "status" -> writeString(reply.e)
      [] reply.t = "bulk" -> writeBulk(FALSE, reply.b)
      [] reply.t = "nilbulk" -> writeBulk(TRUE, <<>>)
      [] reply.t = "int" -> writeInt(reply.n)
      [] reply.t = "err" -> writeError(reply.e)
      [] reply.t = "multi" -> writeMultibulkLength(reply.n) \o writeItems(reply.m)
      [] OTHER -> <<>>

\* the index of the first byte x of bs, 0 when there is none
RECURSIVE IndexByte(_, _, _)
IndexByte(bs, x, i) ==
    IF i > Len(bs) THEN 0 ELSE IF bs[i] = x THEN i ELSE IndexByte(bs, x, i + 1)

\* c.r.ReadLine() at the reader position r, the client having sent all its
\* bytes: the line without its end-of-line bytes, and what is left to read.
\* Lines are shorter than the reader's buffer.
ReadLine(r) ==
    LET nl == IndexByte(r, 10, 1)
        raw == IF nl = 0 THEN r ELSE SubSeq(r, 1, nl - 1)
    IN  [err |-> r = <<>>,
         l |-> IF nl > 1 /\ raw[Len(raw)] = 13 THEN SubSeq(raw, 1, Len(raw) - 1) ELSE raw,
         r |-> IF nl = 0 THEN <<>> ELSE Drop(r, nl)]

\* strconv.Atoi
Atoi(l) == ParseInt(l)

\* the length line after the prefix byte is read
readLengthLine(ln, w) ==
    IF ln.err THEN [r |-> ln.r, w |-> w, length |-> 0, err |-> TRUE, perr |-> FALSE]
    ELSE IF Len(ln.l) = 0
    THEN [r |-> ln.r, w |-> w \o writeProtocolError("missing length"), length |-> 0,
          err |-> FALSE, perr |-> TRUE]
    ELSE IF ~Atoi(ln.l).ok
    THEN [r |-> ln.r, w |-> w \o writeProtocolError("length is not a valid integer"),
          length |-> 0, err |-> TRUE, perr |-> TRUE]
    ELSE [r |-> ln.r, w |-> w, length |-> Atoi(ln.l).n, err |-> FALSE, perr |-> FALSE]

\* readLength(prefix) at the reader position r: the named results length and
\* err are what every bare return hands back
readLength(r, w, prefix) ==
    IF r = <<>> THEN [r |-> r, w |-> w, length |-> 0, err |-> TRUE, perr |-> FALSE]
    ELSE IF r[1] # prefix
    THEN [r |-> Tail(r), w |-> w \o writeProtocolError("invalid length"), length |-> 0,
          err |-> FALSE, perr |-> TRUE]
    ELSE readLengthLine(ReadLine(Tail(r)), w)

\* what reading a command leaves: reader position, chunks sent, arguments,
\* whether the handler returned or panicked, whether a protocol error was sent.
\* On the connection, ran says that the last iteration ran a command of the
\* registry.
Parsed(r, w, args, stop, panic, perr) ==
    [r |-> r, w |-> w, args |-> args, stop |-> stop, panic |-> panic, perr |-> perr]

\* the loop over the arguments, rl being the length of argument i
RECURSIVE readArgs(_, _, _, _, _)
readArgs(rl, args, i, argCount, perr) ==
    IF rl.err THEN Parsed(rl.r, rl.w, args, TRUE, FALSE, perr \/ rl.perr)
    ELSE IF rl.length < 0 THEN Parsed(rl.r, rl.w, args, FALSE, TRUE, perr \/ rl.perr)
    ELSE IF Len(rl.r) < rl.length THEN Parsed(<<>>, rl.w, args, TRUE, FALSE, perr \/ rl.perr)
    ELSE IF i + 1 >= argCount
    THEN Parsed(Drop(rl.r, Min(rl.length + 2, Len(rl.r))), rl.w,
                Append(args, SubSeq(rl.r, 1, rl.length)), FALSE, FALSE, perr \/ rl.perr)
    ELSE readArgs(readLength(Drop(rl.r, Min(rl.length + 2, Len(rl.r))), rl.w, 36),
                  Append(args, SubSeq(rl.r, 1, rl.length)), i + 1, argCount,
                  perr \/ rl.perr)

\* bytes.Split(line, " ")
RECURSIVE Split(_)
Split(line) ==
    IF IndexByte(line, 32, 1) = 0 THEN <<line>>
    ELSE <<SubSeq(line, 1, IndexByte(line, 32, 1) - 1)>>
         \o Split(Drop(line, IndexByte(line, 32, 1)))

\* processInline up to its runCommand
processInline(r) ==
    IF IndexByte(r, 10, 1) = 0 THEN Parsed(<<>>, <<>>, <<>>, TRUE, FALSE, FALSE)
    ELSE IF IndexByte(r, 10, 1) < 2
    THEN Parsed(Drop(r, IndexByte(r, 10, 1)), <<>>, <<>>, FALSE, TRUE, FALSE)
    ELSE Parsed(Drop(r, IndexByte(r, 10, 1)), <<>>,
                Split(SubSeq(r, 1, IndexByte(r, 10, 1) - 2)), FALSE, FALSE, FALSE)

\* the arguments of a multi-bulk command, ac being readLength('*')
readCommand(ac) ==
    IF ac.err THEN Parsed(ac.r, ac.w, <<>>, TRUE, FALSE, ac.perr)
    ELSE IF ac.length <= 0 THEN Parsed(ac.r, ac.w, <<>>, FALSE, FALSE, ac.perr)
    ELSE readArgs(readLength(ac.r, ac.w, 36), <<>>, 0, ac.length, ac.perr)

\* one iteration of the client event loop up to its runCommand
eventLoop(r) ==
    IF r = <<>> THEN Parsed(r, <<>>, <<>>, TRUE, FALSE, FALSE)
    ELSE IF r[1] # 42 THEN processInline(r)
    ELSE readCommand(readLength(r, <<>>, 42))

Letters ==
    <<"a", "b", "c", "d", "e", "f", "g", "h", "i", "j", "k", "l", "m", "n", "o", "p", "q",
      "r", "s", "t", "u", "v", "w", "x", "y", "z">>
\* string(b) of lower-case letters; "?" stands for every other byte
RECURSIVE String(_)
String(b) ==
    IF b = <<>> THEN ""
    ELSE (IF b[1] \in 97..122 THEN Letters[b[1] - 96] ELSE "?") \o String(Tail(b))
\* strings.ToLower(string(args[0])), the key of the command table
CommandName(b) == String(ToLower(b))

\* command.function(args[1:], wb) of the commands the clients of this section send
function(name, s, bad, args) ==
    IF name = "get" THEN Get_(s, bad, args)
    ELSE Engine(commands[name].function, s, bad, args, 0, "invalid")

\* the handler after runCommand(args) has run a command of the registry: out
\* is what it left.  A panic ends the process, a Lock that never returns
\* leaves the handler inside runCommand.
RanCommand(p, name, out) ==
    /\ Finish(name, Tail(p.args), out)
    /\ conn' = [conn EXCEPT !.r = p.r,
                            !.w = @ \o p.w \o writeReply(out.reply),
                            !.st = IF out.panic THEN "panic"
                                   ELSE IF out.hung THEN "hung" ELSE "open",
                            !.perr = @ \/ p.perr,
                            !.ran = TRUE]

\* the handler after an iteration that ran no command of the registry
NoCommandRan(p, w, st, perr) ==
    /\ conn' = [conn EXCEPT !.r = p.r, !.w = @ \o p.w \o w, !.st = st,
                            !.perr = @ \/ p.perr \/ perr, !.ran = FALSE]
    /\ crashed' = (st = "panic")
    /\ UNCHANGED <<store, locks, last, deque>>

\* runCommand(args) of the handler and the end of the iteration
handleParsed(p) ==
    IF p.panic THEN NoCommandRan(p, <<>>, "panic", FALSE)
    ELSE IF p.stop THEN NoCommandRan(p, <<>>, "closed", FALSE)
    ELSE IF Len(p.args) = 0
    THEN NoCommandRan(p, writeProtocolError("missing command"), "open", TRUE)
    ELSE IF CommandName(p.args[1]) \notin DOMAIN commands
    THEN NoCommandRan(p, <<Chunk("-ERR unknown command '", p.args[1], "'\r\n")>>, "open", FALSE)
    ELSE IF ArityRejects(commands[CommandName(p.args[1])], Len(p.args) - 1)
    THEN NoCommandRan(p, <<Chunk("-ERR wrong number of arguments for '", p.args[1],
                                 "' command\r\n")>>, "open", FALSE)
    ELSE IF Len(p.args) < 2 THEN NoCommandRan(p, <<>>, "panic", FALSE)
    ELSE RanCommand(p, CommandName(p.args[1]),
                    runCommand(store, locks, CommandName(p.args[1]), Tail(p.args),
                               function(CommandName(p.args[1]), store, faults, Tail(p.args))))

\* one iteration of the client event loop
HandleCommand ==
    /\ conn.st = "open"
    /\ ~crashed
    /\ handleParsed(eventLoop(conn.r))
    /\ steps' = steps + 1
    /\ faults' = {}
    /\ UNCHANGED concvars
    /\ UNCHANGED <<fin, fout>>

\* what clients send: well-formed commands and malformed ones
GetFrame == <<42, 50, 13, 10, 36, 51, 13, 10, 71, 69, 84, 13, 10, 36, 49, 13, 10, 97, 13, 10>>
SetFrame == <<42, 51, 13, 10, 36, 51, 13, 10, 83, 69, 84, 13, 10, 36, 49, 13, 10, 97, 13, 10, 36, 49, 13, 10, 120, 13, 10>>
InlineFrame == <<103, 101, 116, 32, 97, 13, 10>>
UnknownFrame == <<42, 49, 13, 10, 36, 49, 13, 10, 120, 13, 10>>
BadPrefixFrame == <<42, 49, 13, 10, 35, 51, 13, 10, 71, 69, 84, 13, 10>>
NoLengthFrame == <<42, 13, 10>>
NotIntegerFrame == <<42, 120, 13, 10>>
NoCommandFrame == <<42, 48, 13, 10>>
Frames ==
    {GetFrame, SetFrame, InlineFrame, UnknownFrame, BadPrefixFrame, NoLengthFrame,
     NotIntegerFrame, NoCommandFrame}
\* one frame, or two one after the other
Inputs == Frames \cup {f \o g : f \in Frames, g \in Frames}

InitProto ==
    /\ InitServer
    /\ fin = NoCall
    /\ fout = NoCall
    /\ \E r \in Inputs : conn = [st |-> "open", r |-> r, w |-> <<>>, perr |-> FALSE, ran |-> FALSE]

SpecProto == InitProto /\ [][HandleCommand]_vars

-----------------------------------------------------------------------------
(* The write side of a connection: handler, responseQueue, responseWriter *)

\* replies the handler writes on one connection
MaxReplies == 2

\* the replies a handler sends: +OK, :1, the bulk x and the nil bulk
PipeReplies == {RStatus("OK"), RInt(1), RBulk(<<120>>), RNil}

RECURSIVE ReplyChunks(_)
ReplyChunks(rs) == IF rs = <<>> THEN <<>> ELSE writeReply(Head(rs)) \o ReplyChunks(Tail(rs))

\* the chunks of up to n replies
RECURSIVE ChunkLists(_)
ChunkLists(n) ==
    IF n = 0 THEN {<<>>}
    ELSE ChunkLists(n - 1)
         \cup {writeReply(r) \o cs : r \in PipeReplies, cs \in ChunkLists(n - 1)}

\* handleClient has made c.w and o and started both goroutines; todo is what
\* the handler is going to send, sent what it has sent on c.w
InitPipe ==
    /\ InitServer
    /\ fin = NoCall
    /\ fout = NoCall
    /\ \E cs \in ChunkLists(MaxReplies) :
          conn = [st |-> "pipe", todo |-> cs, sent |-> <<>>, wclosed |-> FALSE,
                  queue |-> <<>>, rq |-> "receive", oclosed |-> FALSE,
                  wr |-> "range", v |-> <<>>, socket |-> <<>>]

PipeStep(c) ==
    /\ conn.st = "pipe"
    /\ conn' = c
    /\ UNCHANGED <<store, locks, faults, crashed, steps, last, deque, fin, fout>>
    /\ UNCHANGED concvars

\* queue = queue[1:]
dequeueKeep(queue) == queue
dequeue(queue) == Tail(queue)

\* queue = append(queue, v)
enqueue(queue, v) == Append(queue, v)

\* where responseQueue waits at the top of its loop: in the lone receive
\* when the queue is empty, in the select otherwise
receiveLoop(queue) == IF queue = <<>> THEN "receive" ELSE "select"

\* w <- chunk in the handler meets v, ok := <-c.w in responseQueue, in the
\* lone receive or in the select
HandlerSends ==
    /\ conn.st = "pipe"
    /\ conn.todo # <<>>
    /\ conn.rq \in {"receive", "select"}
    /\ PipeStep([conn EXCEPT !.todo = Tail(@), !.sent = Append(@, Head(conn.todo)),
                             !.queue = enqueue(@, Head(conn.todo)), !.rq = "select"])

\* protocolHandler returns and the deferred close(c.w) runs
HandlerCloses ==
    /\ conn.st = "pipe"
    /\ conn.todo = <<>>
    /\ ~conn.wclosed
    /\ PipeStep([conn EXCEPT !.wclosed = TRUE])

\* responseQueue finds c.w closed: break out of the loop
QueueSeesClose ==
    /\ conn.st = "pipe"
    /\ conn.wclosed
    /\ conn.rq \in {"receive", "select"}
    /\ PipeStep([conn EXCEPT !.rq = "flush"])

\* case out <- queue[0] of the select meets the range of responseWriter
QueueSends ==
    /\ conn.st = "pipe"
    /\ conn.rq = "select"
    /\ conn.wr = "range"
    /\ PipeStep([conn EXCEPT !.v = <<Head(conn.queue)>>, !.wr = "write",
                             !.queue = dequeue(@), !.rq = receiveLoop(dequeue(conn.queue))])

\* for _, v := range queue { out <- v } after the loop
QueueFlushes ==
    /\ conn.st = "pipe"
    /\ conn.rq = "flush"
    /\ conn.queue # <<>>
    /\ conn.wr = "range"
    /\ PipeStep([conn EXCEPT !.v = <<Head(conn.queue)>>, !.wr = "write", !.queue = Tail(@)])

\* responseQueue returns and the deferred close(out) runs
QueueCloses ==
    /\ conn.st = "pipe"
    /\ conn.rq = "flush"
    /\ conn.queue = <<>>
    /\ PipeStep([conn EXCEPT !.rq = "done", !.oclosed = TRUE])

\* c.cn.Write(v)
WriterWrites ==
    /\ conn.st = "pipe"
    /\ conn.wr = "write"
    /\ PipeStep([conn EXCEPT !.socket = @ \o conn.v, !.v = <<>>, !.wr = "range"])

\* the range over out ends when out is closed
WriterStops ==
    /\ conn.st = "pipe"
    /\ conn.wr = "range"
    /\ conn.oclosed
    /\ PipeStep([conn EXCEPT !.wr = "done"])

NextPipe ==
    \/ HandlerSends \/ HandlerCloses \/ QueueSeesClose \/ QueueSends \/ QueueFlushes
    \/ QueueCloses \/ WriterWrites \/ WriterStops

SpecPipe == InitPipe /\ [][NextPipe]_vars

\* C39: on a connection the chunks written to the socket, the one the writer
\* holds and the ones queued are, in this order, exactly the chunks the handler
\* has sent; and when the writer has stopped every chunk the handler sent is
\* on the socket.
C39_ChunksInOrder ==
    conn.st = "pipe" =>
        /\ conn.socket \o conn.v \o conn.queue = conn.sent
        /\ conn.wr = "done" => (conn.socket = conn.sent /\ conn.wclosed)

\* the writer has stopped after writing the six chunks of two bulk replies
C39_Witness ==
    /\ conn.st = "pipe"
    /\ conn.wr = "done"
    /\ Len(conn.socket) = 6
    /\ conn.socket = conn.sent

\* the tag of the member records a command looks up
MemberTag(name) ==
    IF name \in {"sadd", "srem"} THEN SetKey
    ELSE IF name = "hdel" THEN HashKey ELSE ZSetKey

\* the read that fails is one the command does: the metadata of its key, or
\* the record of a member it names while the key holds members
FailedRead ==
    \/ metaKey(last'.args[1]) \in faults
    \/ /\ metaKey(last'.args[1]) \in DOMAIN store
       /\ \E i \in 2..Len(last'.args) :
             NewKeyBufferWithSuffix(MemberTag(last'.name), last'.args[1],
                                    last'.args[i]).buf \in faults

\* C33: a writing command during which a store read fails replies with an
\* error and leaves the store as it was.
C33_FailedReadAborts ==
    [][(steps' = steps + 1 /\ faults' = {} /\ last'.name \in {"sadd", "srem", "hdel", "zadd", "zrem"}
        /\ FailedRead)
       => /\ IsError(last'.reply)
          /\ store' = store]_vars

\* C35: when dispatch has finished a writing command, by whichever exit, no
\* lock is held any more.
C35_LocksReleased ==
    [][(steps' = steps + 1 /\ faults' = {} /\ locks = {}
        /\ last'.name \in {"sadd", "srem", "hdel", "zadd", "zrem"}
        /\ ~crashed' /\ ~last'.hung)
       => locks' = {}]_vars

\* C36: a writing command that names the same key twice does not wait for a
\* mutex it holds itself: it runs to its end.
C36_SameKeyTwice ==
    [][(steps' = steps + 1 /\ faults' = {} /\ locks = {}
        /\ last'.name = "smove" /\ last'.args[1] = last'.args[2])
       => ~last'.hung]_vars

\* C31: once the handler has sent a protocol error it reads nothing more from
\* the connection and sends nothing more.
C31_ProtocolErrorCloses ==
    [][(conn.st = "open" /\ conn.perr) => (conn'.r = conn.r /\ conn'.w = conn.w)]_vars

\* C32: a command whose reply is nil sends the one chunk $-1\r\n and nothing
\* else; the nil of GET is a []byte.
C32_NilIsOneFrame ==
    [][(conn.st = "open" /\ conn'.ran /\ conn'.st = "open"
        /\ last'.reply \in {RNil, RNilBulk})
       => conn'.w = conn.w \o <<Text("$-1\r\n")>>]_vars

-----------------------------------------------------------------------------
(* Sets: the merge of several sets, SPOP and SMOVE *)

\* the members of set key in store s, by its SetKey records
SetMembers(s, key) ==
    {Drop(x, Len(NewKeyBuffer(SetKey, key).buf)) : x \in RecordsOf(s, SetKey, key)}

\* the byte strings of S in ascending order
RECURSIVE Ascending(_)
Ascending(S) ==
    IF S = {} THEN <<>>
    ELSE LET m == CHOOSE x \in S : \A y \in S : LexLeq(x, y)
         IN  <<m>> \o Ascending(S \ {m})

\* C21: the merge iterator over a list of set keys emits each member of the
\* union of the sets once, in ascending byte order, with exists[i] true exactly
\* for the inputs that hold the member; SUNION replies with those members.
C21_MergeIsUnion ==
    (last.name = "sunion" /\ ~crashed) =>
        LET keys == last.args
            n == Len(keys)
            union == Ascending(UNION {SetMembers(store, keys[i]) : i \in 1..n})
        IN  /\ multiSetIter(store, keys) =
                   [j \in 1..Len(union) |->
                       [member |-> union[j],
                        exists |-> [i \in 1..n |-> union[j] \in SetMembers(store, keys[i])]]]
            /\ last.reply = RMulti(union)

\* C24: SPOP on a set that has members replies with one of them and removes
\* exactly that one: the cardinality drops by 1 and the metadata record goes
\* with the last member.
C24_SpopRemovesOne ==
    [][(steps' = steps + 1 /\ faults = {} /\ faults' = {} /\ last'.name = "spop"
        /\ SetMembers(store, last'.key) # {})
       => LET before == SetMembers(store, last'.key)
              mk == metaKey(last'.key)
          IN  /\ ~crashed'
              /\ last'.reply.t = "bulk"
              /\ last'.reply.b \in before
              /\ SetMembers(store', last'.key) = before \ {last'.reply.b}
              /\ scard(store', {}, mk) = [e |-> "", n |-> Cardinality(before) - 1]
              /\ (Cardinality(before) = 1 => mk \notin DOMAIN store')]_vars

\* the cardinality in the metadata of a set is the number of its records
CardMatches(s, key) ==
    scard(s, {}, metaKey(key)) = [e |-> "", n |-> Cardinality(SetMembers(s, key))]

\* C25: SMOVE src dst m of a member m of src replies 1, removes m from src
\* and makes it a member of dst, changes no other member and leaves both
\* cardinalities equal to the record counts; when m is no member of src it
\* replies 0 and leaves the store as it was.
C25_SmoveMoves ==
    [][(steps' = steps + 1 /\ faults = {} /\ faults' = {} /\ last'.name = "smove"
        /\ Len(last'.args) = 3
        /\ CardMatches(store, last'.args[1]) /\ CardMatches(store, last'.args[2]))
       => LET src == last'.args[1]
              dst == last'.args[2]
              m == last'.args[3]
          IN  IF m \in SetMembers(store, src)
              THEN /\ ~crashed' /\ ~last'.hung
                   /\ last'.reply = RInt(1)
                   /\ m \in SetMembers(store', dst)
                   /\ src # dst => m \notin SetMembers(store', src)
                   /\ SetMembers(store', src) \ {m} = SetMembers(store, src) \ {m}
                   /\ SetMembers(store', dst) \ {m} = SetMembers(store, dst) \ {m}
                   /\ CardMatches(store', src) /\ CardMatches(store', dst)
              ELSE /\ ~crashed' /\ ~last'.hung
                   /\ last'.reply = RInt(0)
                   /\ store' = store]_vars

-----------------------------------------------------------------------------
(* RESTORE and DUMP *)

\* C27: a DUMP of the key that the command before it restored from dump d
\* replies with d: the type, the items in their order and their number.
C27_RestoreDumpRoundTrip ==
    [][(steps' = steps + 1 /\ faults = {} /\ faults' = {}
        /\ last.name = "restore" /\ last.reply = RStatus("OK") /\ ~crashed
        /\ last'.name = "dump" /\ last'.key = last.key)
       => /\ ~crashed'
          /\ last'.reply = RBulk(last.args[3])]_vars

\* C28: a MIGRATE to a target that did not answer OK to RESTORE, or of a key
\* that has no dump, replies with an error (or NOKEY) and leaves the store as
\* it was.
C28_MigrateKeepsOnFailure ==
    [][(steps' = steps + 1 /\ faults = {} /\ faults' = {} /\ last'.name = "migrate"
        /\ Len(last'.args) = 5
        /\ (last'.args[1] # UpHost \/ metaKey(last'.args[3]) \notin DOMAIN store))
       => /\ ~crashed'
          /\ IsError(last'.reply) \/ last'.reply = RStatus("NOKEY")
          /\ store' = store]_vars

-----------------------------------------------------------------------------
(* Streamed replies *)

\* C29: when an LRANGE has run, by whichever exit (error of the metadata read,
\* empty list, invalid range argument, empty range, end of the stream), it
\* holds no snapshot any more.
C29_SnapshotsReleased ==
    [][(steps' = steps + 1 /\ faults' = {} /\ last'.name = "lrange" /\ ~crashed')
       => LrangeHeld(store, faults, last'.args) = 0]_vars

\* C30: the element count a streamed reply (LRANGE, ZRANGE, ZREVRANGE) announces
\* is the number of items it sends before the stream is closed.
C30_AnnouncedIsSent ==
    (last.name \in {"lrange", "zrange", "zrevrange"} /\ last.reply.t = "multi" /\ ~crashed)
        => last.reply.n = Len(last.reply.m)

-----------------------------------------------------------------------------
(* ZUNIONSTORE and ZINTERSTORE *)

\* input key holds member m, as a sorted set or as a set
Holds(s, key, m) ==
    \/ NewKeyBufferWithSuffix(ZSetKey, key, m).buf \in DOMAIN s
    \/ NewKeyBufferWithSuffix(SetKey, key, m).buf \in DOMAIN s

\* the score of m in the input key: a member of a set counts 1
InputScore(s, key, m) ==
    IF NewKeyBufferWithSuffix(ZSetKey, key, m).buf \in DOMAIN s
    THEN btof(s[NewKeyBufferWithSuffix(ZSetKey, key, m).buf])
    ELSE 1

\* the aggregate of score_i * w_i over the inputs i that hold m
WeightedScore(s, keys, weights, aggregate, m) ==
    LET in == {i \in 1..Len(keys) : Holds(s, keys[i], m)}
        part == [i \in 1..Len(keys) |->
                    IF i \in in THEN InputScore(s, keys[i], m) * weights[i] ELSE 0]
    IN  IF aggregate = zsetAggSum THEN SeqSum(part)
        ELSE IF aggregate = zsetAggMin
        THEN CHOOSE x \in {part[i] : i \in in} : \A i \in in : x <= part[i]
        ELSE CHOOSE x \in {part[i] : i \in in} : \A i \in in : x >= part[i]

\* a ZUNIONSTORE or ZINTERSTORE has just replied with a count
Combined ==
    /\ steps' = steps + 1
    /\ faults = {}
    /\ faults' = {}
    /\ last'.name \in {"zunionstore", "zinterstore"}
    /\ last'.reply.t = "int"
    /\ ~crashed'

\* C22: the score stored for each member of the result is the aggregate of
\* score_i * w_i over the inputs i that hold the member, w_i being the weight
\* given for input key i.
C22_WeightsByInput ==
    [][Combined =>
        LET args == last'.args
            nk == ParseInt(args[2]).n
            keys == SubSeq(args, 3, 2 + nk)
            o == zsetOptions(args, nk)
        IN  \A x \in RecordsOf(store', ZSetKey, last'.key) :
                LET m == Drop(x, Len(NewKeyBuffer(ZSetKey, last'.key).buf))
                IN  store'[x] = Float64bits(WeightedScore(store, keys, o.weights, o.aggregate, m))]_vars

\* a well-formed ZUNIONSTORE or ZINTERSTORE has just been dispatched with no
\* read fault
CombineRan ==
    /\ steps' = steps + 1
    /\ faults = {}
    /\ faults' = {}
    /\ last'.name \in {"zunionstore", "zinterstore"}
    /\ Len(last'.args) >= 3
    /\ ParseInt(last'.args[2]).ok
    /\ ParseInt(last'.args[2]).n >= 1
    /\ zsetOptions(last'.args, ParseInt(last'.args[2]).n).e = ""

\* the members a combination of the input keys has: of all for the
\* intersection, of any for the union
ResultMembers(s, name, keys) ==
    LET any == UNION {{m \in Members : Holds(s, keys[i], m)} : i \in 1..Len(keys)}
    IN  IF name = "zinterstore"
        THEN {m \in any : \A i \in 1..Len(keys) : Holds(s, keys[i], m)}
        ELSE any

\* C23: after ZUNIONSTORE or ZINTERSTORE the destination is a sorted set of
\* exactly the result members, its cardinality is the integer replied, and no
\* record of what the destination held before is left, also when the
\* destination is one of the inputs.
C23_DestinationReplaced ==
    [][CombineRan =>
        LET args == last'.args
            dest == last'.key
            keys == SubSeq(args, 3, 2 + ParseInt(args[2]).n)
            result == ResultMembers(store, last'.name, keys)
        IN  /\ ~crashed'
            /\ last'.reply = RInt(Cardinality(result))
            /\ zcard(store', {}, metaKey(dest)) = [e |-> "", n |-> Cardinality(result)]
            /\ RecordsOf(store', ZSetKey, dest)
                   = {NewKeyBufferWithSuffix(ZSetKey, dest, m).buf : m \in result}
            /\ Cardinality(RecordsOf(store', ZScoreKey, dest)) = Cardinality(result)
            /\ \A t \in {StringKey, HashKey, ListKey, SetKey} :
                  RecordsOf(store', t, dest) = {}]_vars

-----------------------------------------------------------------------------
(* DEL, SET over another type, wrong types and arity *)

\* no record of any kind is left under key k
NoRecords(s, k) ==
    /\ metaKey(k) \notin DOMAIN s
    /\ \A t \in ElementTags : RecordsOf(s, t, k) = {}

\* the keys named by args, as a set
Named(args) == {args[i] : i \in 1..Len(args)}

\* C17: a DEL whose reads succeed removes the metadata record and every element
\* record of each key it names, whatever the key's type, and replies with the
\* number of named keys that existed.
C17_DelRemovesAll ==
    [][(steps' = steps + 1 /\ faults = {} /\ faults' = {} /\ last'.name = "del")
       => /\ ~crashed'
          /\ last'.reply = RInt(Cardinality({k \in Named(last'.args) : metaKey(k) \in DOMAIN store}))
          /\ \A k \in Named(last'.args) : NoRecords(store', k)]_vars

\* C18: a SET on a key that holds a hash, a list, a set or a sorted set
\* removes every record of the old aggregate: afterwards TYPE is string, GET
\* returns the value, and no element record of another type is left.
C18_SetReplacesAggregate ==
    [][(steps' = steps + 1 /\ faults = {} /\ faults' = {} /\ last'.name = "set"
        /\ Len(last'.args) = 2
        /\ Get(store, {}, metaKey(last'.key)).found
        /\ store[metaKey(last'.key)] # <<>>
        /\ store[metaKey(last'.key)][1] # StringLengthValue)
       => /\ ~crashed'
          /\ last'.reply = RStatus("OK")
          /\ Type(store', {}, <<last'.key>>).reply = RStatus("string")
          /\ Get_(store', {}, <<last'.key>>).reply = RBulk(last'.args[2])
          /\ \A t \in {HashKey, ListKey, SetKey, ZSetKey, ZScoreKey} :
                RecordsOf(store', t, last'.key) = {}]_vars

\* the metadata tag a command expects under its first argument
ExpectedTag(name) ==
    IF name = "get" THEN StringLengthValue
    ELSE IF name \in {"hset", "hsetnx", "hmset", "hdel", "hincrby"} THEN HashLengthValue
    ELSE IF name \in {"sadd", "srem", "spop"} THEN SetCardValue
    ELSE IF name \in {"zadd", "zincrby", "zrem", "zscore", "zrange", "zrevrange"} THEN ZCardValue
    ELSE ListLengthValue
TypedCommands ==
    {"get", "hset", "hsetnx", "hmset", "hdel", "hincrby", "sadd", "srem", "spop",
     "zadd", "zincrby", "zrem", "zscore", "zrange", "zrevrange",
     "lpush", "rpush", "lpushx", "rpushx", "lpop", "rpop", "lrange"}

\* C19: a command that expects one type, run on a key whose metadata carries
\* the tag of another type, replies with the wrong-type error and leaves the
\* store as it was.
C19_WrongType ==
    [][(steps' = steps + 1 /\ faults = {} /\ faults' = {} /\ last'.name \in TypedCommands
        /\ Get(store, {}, metaKey(last'.key)).found
        /\ store[metaKey(last'.key)] # <<>>
        /\ store[metaKey(last'.key)][1] # ExpectedTag(last'.name))
       => /\ ~crashed'
          /\ last'.reply = RErr(InvalidKeyTypeError)
          /\ store' = store]_vars

\* the number of arguments the arity of command c asks for
ArityAccepts(c, nargs) == IF c.arity >= 0 THEN nargs = c.arity ELSE nargs >= -c.arity

\* C20: a command whose number of arguments is not what its arity asks for is
\* answered with the wrong-number-of-arguments error: its engine does not run,
\* nothing is staged and the store is left as it was.
C20_ArityEnforced ==
    [][(steps' = steps + 1 /\ faults' = {} /\ last'.name \in DOMAIN commands
        /\ ~ArityAccepts(commands[last'.name], Len(last'.args)))
       => /\ last'.reply = RErr("wrong number of arguments")
          /\ ~crashed'
          /\ ~last'.staged
          /\ store' = store]_vars

-----------------------------------------------------------------------------
(* ReverseIterKey and the sortable score encoding *)

\* C14: the boundary key B that ReverseIterKey makes of the prefix P of a key is
\* greater than every key with prefix P, no key without prefix P lies between
\* P and B, and Seek(B) followed by one Prev lands on the greatest key with
\* prefix P whenever there is one.
C14_ReverseIterKeyBounds ==
    fout.fn = "ReverseIterKey" =>
        LET p == NewKeyBuffer(fin.tag, fin.key).buf
            inP == {x \in fin.keys : HasPrefix(x, p)}
        IN  /\ \A x \in RevRecords : HasPrefix(x, p) => LexLess(x, fout.b)
            /\ \A x \in RevRecords :
                  ~HasPrefix(x, p) => ~(LexLeq(p, x) /\ LexLess(x, fout.b))
            /\ inP # {} =>
                  /\ ~fout.panic
                  /\ fout.at \in inP
                  /\ \A y \in inP : LexLeq(y, fout.at)

\* the two ordering statements of C14 alone
ReverseIterKeyOrder ==
    fout.fn = "ReverseIterKey" =>
        LET p == NewKeyBuffer(fin.tag, fin.key).buf
        IN  /\ \A x \in RevRecords : HasPrefix(x, p) => LexLess(x, fout.b)
            /\ \A x \in RevRecords :
                  ~HasPrefix(x, p) => ~(LexLeq(p, x) /\ LexLess(x, fout.b))

\* the magnitude bits of a score
Magnitude(bits) == <<bits[1] % 128>> \o Tail(bits)

\* a < b over sign and magnitude of the bit patterns of two finite scores
ScoreLess(a, b) ==
    IF a[1] >= 128 /\ b[1] < 128 THEN TRUE
    ELSE IF a[1] < 128 /\ b[1] >= 128 THEN FALSE
    ELSE IF a[1] >= 128 THEN LexLess(Magnitude(b), Magnitude(a))
    ELSE LexLess(Magnitude(a), Magnitude(b))

====
